---- MODULE Spec2Model ----
(***************************************************************************)
(* PiTodoist: the task / timer / sync state machine and its persistence.   *)
(*                                                                         *)
(* The three JSON files (tasks.json, time_tracking.json, state.json) are   *)
(* the state.  Every accessor of the program re-reads its file and every   *)
(* mutator writes a whole file, so the operations are modelled as          *)
(* functions from file contents to file contents, composed in the order    *)
(* the code performs them.                                                 *)
(*                                                                         *)
(* Python values: None in a string-valued slot is the string None; None in *)
(* a slot that holds a timestamp or a nested object is the record NoneT.   *)
(* An ISO-8601 string is the record of what is printed: whole seconds, the *)
(* fractional digits (printed only when non-zero) and the zone suffix.     *)
(***************************************************************************)
EXTENDS Integers, Sequences, FiniteSets, TLC

VARIABLES
    tasksFile,      \* data/tasks.json
    entriesFile,    \* data/time_tracking.json
    stateFile,      \* data/state.json
    now,            \* the wall clock, in ticks of 1/SubSec second
    uuidSeq,        \* number of entry ids generated so far
    last,           \* the operation that ran last, its inputs and its result
    _sync_thread,      \* background_sync: the Thread object, 0 for None
    _sync_stop_event,  \* background_sync: the Event object, 0 for None
    _sync_token,       \* background_sync: the token, None when not configured
    _sync_interval,    \* background_sync: seconds between two syncs
    _sync_lock,        \* background_sync: the caller holding the lock, None when free
    threads,        \* the threads created so far: where each is in _sync_loop
    eventSet,       \* the Event objects that have been set
    callers,        \* the control operation each caller is in, and its result
    hist,           \* what has happened to the schedule, for the properties
    procs           \* threads inside start, stop or sync: the step each is at, its locals

sched == <<_sync_thread, _sync_stop_event, _sync_token, _sync_interval, _sync_lock,
           threads, eventSet, callers, hist>>

vars == <<tasksFile, entriesFile, stateFile, now, uuidSeq, last, sched, procs>>

-----------------------------------------------------------------------------
(* Bounds of the model *)

\* The clock runs from 0 to MaxClock ticks, SubSec ticks to the second
MaxClock == 2
SubSec == 2
\* At most MaxEntries time entries are ever created
MaxEntries == 2
\* The remote service lists at most MaxRemote tasks
MaxRemote == 2
\* At most MaxThreads background threads are ever created
MaxThreads == 2
\* The durations that are formatted run up to MaxHours hours and 59:59
MaxHours == 3

-----------------------------------------------------------------------------
(* Python values *)

None == "None"
NoneT == [none |-> TRUE]

\* dict.get(key, default)
Get(d, k, default) == IF k \in DOMAIN d THEN d[k] ELSE default

\* `x or None` for a string-valued x
OrNone(x) == IF x = "" \/ x = None THEN None ELSE x

\* The empty string in a slot that holds a timestamp, and `x or None` there
EmptyT == [empty |-> TRUE]
OrNoneT(x) == IF x = EmptyT \/ x = NoneT THEN NoneT ELSE x

\* The ids a caller may name
TaskIds == {"T1", "T2"}

-----------------------------------------------------------------------------
(* Timestamps: datetime.utcnow().isoformat() + "Z", and parsing them back *)

\* datetime.isoformat(): the fraction is printed only when it is not zero
IsoFormat(t) ==
    IF t % SubSec = 0
    THEN [sec |-> t \div SubSec, hasFrac |-> FALSE, frac |-> 0, tz |-> ""]
    ELSE [sec |-> t \div SubSec, hasFrac |-> TRUE, frac |-> t % SubSec, tz |-> ""]

_now_iso(t) == [IsoFormat(t) EXCEPT !.tz = "Z"]

\* s.replace("Z", "+00:00")
ReplaceZ(s) == IF s.tz = "Z" THEN [s EXCEPT !.tz = "+00:00"] ELSE s

\* datetime.fromisoformat: the instant in ticks, or a ValueError
FromIsoFormat(s) ==
    IF /\ DOMAIN s = {"sec", "hasFrac", "frac", "tz"}
       /\ s.tz \in {"", "+00:00"}
    THEN [ok |-> TRUE, aware |-> s.tz = "+00:00",
          t |-> s.sec * SubSec + (IF s.hasFrac THEN s.frac ELSE 0)]
    ELSE [ok |-> FALSE, aware |-> FALSE, t |-> 0]

\* int(x) of a number of ticks expressed in seconds: truncation toward zero
IntSeconds(d) == IF d >= 0 THEN d \div SubSec ELSE -((-d) \div SubSec)

\* _calculate_duration that rounds a started second up
_calculate_duration_RoundsUp(start, stop) ==
    IF stop = NoneT THEN 0
    ELSE LET a == FromIsoFormat(ReplaceZ(start))
             b == FromIsoFormat(ReplaceZ(stop))
         IN  IF a.ok /\ b.ok /\ a.aware = b.aware
             THEN IntSeconds(b.t - a.t + SubSec - 1)
             ELSE 0

_calculate_duration(start, stop) ==
    IF stop = NoneT THEN 0
    ELSE LET a == FromIsoFormat(ReplaceZ(start))
             b == FromIsoFormat(ReplaceZ(stop))
         IN  IF a.ok /\ b.ok /\ a.aware = b.aware
             THEN IntSeconds(b.t - a.t)
             ELSE 0

-----------------------------------------------------------------------------
(* storage.py: the three files *)

\* A file that does not exist, or whose content json.load rejects
Absent == [absent |-> TRUE]

\* _read_json: None when the file is missing or does not parse
_read_json(file) == IF file = Absent THEN NoneT ELSE file

\* _write_json under the three outcomes the file system can produce: the
\* write succeeds; open() fails and the file is untouched; the dump fails
\* after open() truncated the file, leaving content that does not parse.
_write_json(file, data, outcome) ==
    CASE outcome = "ok" -> data
      [] outcome = "open_failed" -> file
      [] OTHER -> Absent

WriteOk(outcome) == outcome = "ok"

ReliableStore == {"ok"}
FailingStore == {"ok", "open_failed", "dump_failed"}

\* The document also carries last_updated, which no code reads back; it is
\* left out of the content modelled here.
save_tasks(file, tasks, at, outcome) ==
    _write_json(file, [version |-> "1", tasks |-> tasks], outcome)

load_tasks(file) ==
    LET data == _read_json(file)
    IN  IF data = NoneT \/ "tasks" \notin DOMAIN data THEN <<>> ELSE data.tasks

save_time_entries(file, entries, outcome) ==
    _write_json(file, [version |-> "1", entries |-> entries], outcome)

load_time_entries(file) ==
    LET data == _read_json(file)
    IN  IF data = NoneT \/ "entries" \notin DOMAIN data THEN <<>> ELSE data.entries

DefaultState ==
    [active_task_id |-> None, current_time_entry_id |-> None,
     session_start |-> NoneT, last_sync |-> NoneT]

save_state(file, state, outcome) ==
    _write_json(file, [version |-> "1", state |-> state], outcome)

load_state(file) ==
    LET data == _read_json(file)
    IN  IF data = NoneT \/ "state" \notin DOMAIN data THEN DefaultState ELSE data.state

\* What a file can hold when it was not written by save_*: the contents that
\* take a different path through _read_json and the loaders.
Missing == [kind |-> "missing"]         \* filepath.exists() is false
Unreadable == [kind |-> "unreadable"]   \* open() raises an IOError (OSError)
NotUtf8 == [kind |-> "not_utf8"]        \* bytes that are no UTF-8 text
NotJson == [kind |-> "not_json"]        \* text that json.load rejects
Json(v) == [kind |-> "json", value |-> v]

\* JSON values as Python objects.  A string is the sequence of its pieces, so
\* that the substring test of `in` has something to find; an array is the
\* sequence of its items, an object the function from its keys.
JNull == [t |-> "null"]
JNumber == [t |-> "number"]
JBool == [t |-> "bool"]
JString(pieces) == [t |-> "string", pieces |-> pieces]
JArray(items) == [t |-> "array", items |-> items]
JObject(doc) == [t |-> "object", doc |-> doc]

Kinds == {"tasks", "entries", "state"}

\* The top-level key of each kind, and the value its loader returns on failure
KeyOf(kind) == kind
DefaultOf(kind) ==
    IF kind = "state"
    THEN JObject([active_task_id |-> JNull, current_time_entry_id |-> JNull,
                  session_start |-> JNull, last_sync |-> JNull])
    ELSE JArray(<<>>)

\* A value of the shape the kind's loader is meant to return
Expected(kind) ==
    IF kind = "state"
    THEN JObject([active_task_id |-> JString(<<"T1">>), current_time_entry_id |-> JNull,
                  session_start |-> JNull, last_sync |-> JNull])
    ELSE JArray(<<JObject([id |-> JString(<<"T1">>)])>>)

Document(key, v) == JObject((key :> v) @@ [version |-> JString(<<"1">>)])

FileContents(kind) ==
    {Missing, Unreadable, NotUtf8, NotJson,
     Json(JNull), Json(JNumber), Json(JBool),
     Json(JString(<<"x">>)), Json(JString(<<"my ", KeyOf(kind)>>)),
     Json(JArray(<<>>)), Json(JArray(<<JString(<<KeyOf(kind)>>)>>)),
     Json(JObject([version |-> JString(<<"1">>)])),
     Json(Document(KeyOf(kind), JNumber)),
     Json(Document(KeyOf(kind), Expected(kind)))}

\* _read_json on any content: only json.JSONDecodeError and IOError are
\* caught, so the UnicodeDecodeError of the text decoder reaches the caller
ReadAny(raw) ==
    CASE raw.kind \in {"missing", "unreadable", "not_json"} ->
             [raised |-> "none", data |-> JNull]
      [] raw.kind = "not_utf8" -> [raised |-> "UnicodeDecodeError", data |-> JNull]
      [] OTHER -> [raised |-> "none", data |-> raw.value]

\* Python's `key in data`: a key test on a dict, a membership test on a list,
\* a substring test on a str, and TypeError on a number or a bool
In(key, data) ==
    CASE data.t = "object" -> [raised |-> "none", value |-> key \in DOMAIN data.doc]
      [] data.t = "array" ->
             [raised |-> "none",
              value |-> \E i \in DOMAIN data.items : data.items[i] = JString(<<key>>)]
      [] data.t = "string" ->
             [raised |-> "none",
              value |-> \E i \in DOMAIN data.pieces : data.pieces[i] = key]
      [] OTHER -> [raised |-> "TypeError", value |-> FALSE]

\* Python's data[key] with a str key: the value on a dict, TypeError on a list
\* or a str (indices must be integers)
Subscript(data, key) ==
    IF data.t = "object"
    THEN [raised |-> "none", value |-> data.doc[key]]
    ELSE [raised |-> "TypeError", value |-> JNull]

\* load_tasks, load_time_entries and load_state on any content:
\*     data = _read_json(FILE)
\*     if data is None or KEY not in data: return DEFAULT
\*     return data[KEY]
Load(kind, raw) ==
    LET read == ReadAny(raw)
        has == In(KeyOf(kind), read.data)
        got == Subscript(read.data, KeyOf(kind))
    IN  CASE read.raised # "none" -> [raised |-> read.raised, value |-> JNull]
          [] read.data = JNull -> [raised |-> "none", value |-> DefaultOf(kind)]
          [] has.raised # "none" -> [raised |-> has.raised, value |-> JNull]
          [] ~has.value -> [raised |-> "none", value |-> DefaultOf(kind)]
          [] got.raised # "none" -> [raised |-> got.raised, value |-> JNull]
          [] OTHER -> [raised |-> "none", value |-> got.value]


-----------------------------------------------------------------------------
(* task_state.py: read-modify-write of the whole state record *)

get_active_task_id(sf) == load_state(sf).active_task_id

set_active_task_id(sf, id, outcome) ==
    save_state(sf, [load_state(sf) EXCEPT !.active_task_id = id], outcome)

get_current_time_entry_id(sf) == load_state(sf).current_time_entry_id

set_current_time_entry_id(sf, id, outcome) ==
    save_state(sf, [load_state(sf) EXCEPT !.current_time_entry_id = id], outcome)

get_last_sync(sf) == load_state(sf).last_sync

set_last_sync(sf, ts, outcome) ==
    save_state(sf, [load_state(sf) EXCEPT !.last_sync = ts], outcome)

\* get_task_by_id(...) is not None: some task of the cache has this id
task_exists(tf, id) ==
    \E i \in 1..Len(load_tasks(tf)) : load_tasks(tf)[i].id = id

\* get_active_task that falls back on the first cached task when the active
\* id names no cached task
get_active_task_FallsBack(tf, sf) ==
    LET active_task_id == get_active_task_id(sf)
        tasks == load_tasks(tf)
        hits == {i \in 1..Len(tasks) : tasks[i].id = active_task_id}
    IN  IF active_task_id = None THEN NoneT
        ELSE IF hits # {} THEN tasks[CHOOSE i \in hits : \A j \in hits : i <= j]
        ELSE IF tasks # <<>> THEN tasks[1]
        ELSE NoneT

\* get_active_task: the cached task the active id names, if there is one
get_active_task(tf, sf) ==
    LET active_task_id == get_active_task_id(sf)
        tasks == load_tasks(tf)
        hits == {i \in 1..Len(tasks) : tasks[i].id = active_task_id}
    IN  IF active_task_id = None THEN NoneT
        ELSE IF hits = {} THEN NoneT
        ELSE tasks[CHOOSE i \in hits : \A j \in hits : i <= j]

-----------------------------------------------------------------------------
(* time_tracking.py *)

\* "time-" + uuid4().hex[:12]: the k-th id generated, distinct from the others
_generate_entry_id(k) == "time-" \o ToString(k)

IsOpen(entry) == entry.stop_time = NoneT

\* The entries of a list that are still running
OpenIndices(entries) == {i \in 1..Len(entries) : IsOpen(entries[i])}

MinOf(S) == CHOOSE i \in S : \A j \in S : i <= j

\* get_active_time_entry: the first entry without a stop_time
get_active_time_entry(ef) ==
    LET entries == load_time_entries(ef)
    IN  IF OpenIndices(entries) = {} THEN NoneT
        ELSE entries[MinOf(OpenIndices(entries))]

\* get_current_session_duration(entry_id) at clock value `at`
get_current_session_duration(ef, entry_id, at) ==
    LET entries == load_time_entries(ef)
    IN  IF entry_id # None /\ entry_id # ""
        THEN LET hits == {i \in 1..Len(entries) :
                            /\ entries[i].entry_id = entry_id
                            /\ entries[i].start_time # NoneT
                            /\ IsOpen(entries[i])}
             IN  IF hits = {} THEN 0
                 ELSE _calculate_duration(entries[MinOf(hits)].start_time, _now_iso(at))
        ELSE LET active_entry == get_active_time_entry(ef)
             IN  IF active_entry # NoneT /\ active_entry.start_time # NoneT
                 THEN _calculate_duration(active_entry.start_time, _now_iso(at))
                 ELSE 0

\* The loop of get_total_time_for_task over entries[1..n]
RECURSIVE TotalOver(_, _, _, _, _)
TotalOver(ef, entries, n, task_id, at) ==
    IF n = 0 THEN 0
    ELSE TotalOver(ef, entries, n - 1, task_id, at) +
         (IF entries[n].task_id # task_id THEN 0
          ELSE IF IsOpen(entries[n])
               THEN get_current_session_duration(ef, entries[n].entry_id, at)
               ELSE entries[n].duration_seconds)

\* The loop of a get_total_time_for_task that trusts the stored duration of
\* every entry, open or closed
RECURSIVE StoredOver(_, _, _)
StoredOver(entries, n, task_id) ==
    IF n = 0 THEN 0
    ELSE StoredOver(entries, n - 1, task_id) +
         (IF entries[n].task_id # task_id THEN 0 ELSE entries[n].duration_seconds)

get_total_time_for_task_Stored(ef, task_id, at) ==
    StoredOver(load_time_entries(ef), Len(load_time_entries(ef)), task_id)

get_total_time_for_task(ef, task_id, at) ==
    TotalOver(ef, load_time_entries(ef), Len(load_time_entries(ef)), task_id, at)

\* Whether start_task gets as far as generating an entry id
StartPassesChecks(tf, sf, task_id) ==
    task_exists(tf, task_id) /\ get_active_task_id(sf) = None

\* start_task without the check that no task is active
start_task_NoActiveCheck(tf, ef, sf, task_id, at, entry_id, w) ==
    IF ~task_exists(tf, task_id)
    THEN [ret |-> FALSE, ef |-> ef, sf |-> sf]
    ELSE LET entry == [entry_id |-> entry_id, task_id |-> task_id,
                       start_time |-> _now_iso(at), stop_time |-> NoneT,
                       duration_seconds |-> 0, notes |-> None]
             ef1 == save_time_entries(ef, Append(load_time_entries(ef), entry), w[1])
             sf1 == set_active_task_id(sf, task_id, w[2])
             sf2 == set_current_time_entry_id(sf1, entry_id, w[3])
         IN  IF ~WriteOk(w[1])
             THEN [ret |-> FALSE, ef |-> ef1, sf |-> sf]
             ELSE [ret |-> TRUE, ef |-> ef1, sf |-> sf2]

\* start_task that refuses only when another task is active
start_task_RestartsSameTask(tf, ef, sf, task_id, at, entry_id, w) ==
    IF get_active_task_id(sf) = task_id
    THEN start_task_NoActiveCheck(tf, ef, sf, task_id, at, entry_id, w)
    ELSE IF get_active_task_id(sf) # None \/ ~task_exists(tf, task_id)
    THEN [ret |-> FALSE, ef |-> ef, sf |-> sf]
    ELSE start_task_NoActiveCheck(tf, ef, sf, task_id, at, entry_id, w)

\* start_task.  w[1] is the outcome of the time-entry write, w[2] and w[3]
\* those of the two state writes, whose results the code does not look at.
start_task(tf, ef, sf, task_id, at, entry_id, w) ==
    IF ~task_exists(tf, task_id)
    THEN [ret |-> FALSE, ef |-> ef, sf |-> sf]
    ELSE IF get_active_task_id(sf) # None
    THEN [ret |-> FALSE, ef |-> ef, sf |-> sf]
    ELSE LET entry == [entry_id |-> entry_id, task_id |-> task_id,
                       start_time |-> _now_iso(at), stop_time |-> NoneT,
                       duration_seconds |-> 0, notes |-> None]
             ef1 == save_time_entries(ef, Append(load_time_entries(ef), entry), w[1])
             sf1 == set_active_task_id(sf, task_id, w[2])
             sf2 == set_current_time_entry_id(sf1, entry_id, w[3])
         IN  IF ~WriteOk(w[1])
             THEN [ret |-> FALSE, ef |-> ef1, sf |-> sf]
             ELSE [ret |-> TRUE, ef |-> ef1, sf |-> sf2]

\* The entry stop_task closes: the first open entry of the task, by scan order
OpenIndicesOf(entries, task_id) ==
    {i \in OpenIndices(entries) : entries[i].task_id = task_id}

CloseEntry(entry, stop_time) ==
    [entry EXCEPT !.stop_time = stop_time,
                  !.duration_seconds = _calculate_duration(entry.start_time, stop_time)]

\* stop_task that, asked to stop a task that is not the active one, stops
\* the active one
stop_task_StopsActive(ef, sf, task_id, at, w) ==
    LET active == get_active_task_id(sf)
        entries == load_time_entries(ef)
        open == OpenIndicesOf(entries, active)
    IN  IF active = None \/ open = {}
        THEN [ret |-> FALSE, ef |-> ef, sf |-> sf]
        ELSE LET i == MinOf(open)
                 closed == [entries EXCEPT ![i] = CloseEntry(entries[i], _now_iso(at))]
                 ef1 == save_time_entries(ef, closed, w[1])
                 sf1 == set_active_task_id(sf, None, w[2])
                 sf2 == set_current_time_entry_id(sf1, None, w[3])
             IN  IF ~WriteOk(w[1])
                 THEN [ret |-> FALSE, ef |-> ef1, sf |-> sf]
                 ELSE [ret |-> active = task_id, ef |-> ef1, sf |-> sf2]

\* stop_task that clears active_task_id and forgets current_time_entry_id
stop_task_KeepsEntryId(ef, sf, task_id, at, w) ==
    IF get_active_task_id(sf) # task_id
    THEN [ret |-> FALSE, ef |-> ef, sf |-> sf]
    ELSE LET entries == load_time_entries(ef)
             open == OpenIndicesOf(entries, task_id)
         IN  IF open = {}
             THEN [ret |-> FALSE, ef |-> ef, sf |-> sf]
             ELSE LET i == MinOf(open)
                      closed == [entries EXCEPT ![i] = CloseEntry(entries[i], _now_iso(at))]
                      ef1 == save_time_entries(ef, closed, w[1])
                      sf1 == set_active_task_id(sf, None, w[2])
                  IN  IF ~WriteOk(w[1])
                      THEN [ret |-> FALSE, ef |-> ef1, sf |-> sf]
                      ELSE [ret |-> TRUE, ef |-> ef1, sf |-> sf1]

\* stop_task, with the same three writes as start_task
stop_task(ef, sf, task_id, at, w) ==
    IF get_active_task_id(sf) # task_id
    THEN [ret |-> FALSE, ef |-> ef, sf |-> sf]
    ELSE LET entries == load_time_entries(ef)
             open == OpenIndicesOf(entries, task_id)
         IN  IF open = {}
             THEN [ret |-> FALSE, ef |-> ef, sf |-> sf]
             ELSE LET i == MinOf(open)
                      closed == [entries EXCEPT ![i] = CloseEntry(entries[i], _now_iso(at))]
                      ef1 == save_time_entries(ef, closed, w[1])
                      sf1 == set_active_task_id(sf, None, w[2])
                      sf2 == set_current_time_entry_id(sf1, None, w[3])
                  IN  IF ~WriteOk(w[1])
                      THEN [ret |-> FALSE, ef |-> ef1, sf |-> sf]
                      ELSE [ret |-> TRUE, ef |-> ef1, sf |-> sf2]

\* stop_all_tasks that closes the first open entry only
stop_all_tasks_ClosesFirst(ef, sf, at, w) ==
    LET entries == load_time_entries(ef)
        open == OpenIndices(entries)
        closed == [i \in 1..Len(entries) |->
                     IF open # {} /\ i = MinOf(open)
                     THEN CloseEntry(entries[i], _now_iso(at))
                     ELSE entries[i]]
        ef1 == IF open # {} THEN save_time_entries(ef, closed, w[1]) ELSE ef
        sf1 == set_active_task_id(sf, None, w[2])
        sf2 == set_current_time_entry_id(sf1, None, w[3])
    IN  [ef |-> ef1, sf |-> sf2]

\* stop_all_tasks that closes the entries and leaves the state pointers
stop_all_tasks_KeepsPointers(ef, sf, at, w) ==
    LET entries == load_time_entries(ef)
        closed == [i \in 1..Len(entries) |->
                     IF IsOpen(entries[i]) THEN CloseEntry(entries[i], _now_iso(at))
                     ELSE entries[i]]
        ef1 == IF OpenIndices(entries) # {} THEN save_time_entries(ef, closed, w[1]) ELSE ef
    IN  [ef |-> ef1, sf |-> sf]

\* stop_all_tasks that stamps every entry, the closed ones too
stop_all_tasks_RestampsAll(ef, sf, at, w) ==
    LET entries == load_time_entries(ef)
        closed == [i \in 1..Len(entries) |-> CloseEntry(entries[i], _now_iso(at))]
        ef1 == IF OpenIndices(entries) # {} THEN save_time_entries(ef, closed, w[1]) ELSE ef
        sf1 == set_active_task_id(sf, None, w[2])
        sf2 == set_current_time_entry_id(sf1, None, w[3])
    IN  [ef |-> ef1, sf |-> sf2]

\* stop_all_tasks: every open entry gets the same stop_time
stop_all_tasks(ef, sf, at, w) ==
    LET entries == load_time_entries(ef)
        closed == [i \in 1..Len(entries) |->
                     IF IsOpen(entries[i]) THEN CloseEntry(entries[i], _now_iso(at))
                     ELSE entries[i]]
        ef1 == IF OpenIndices(entries) # {} THEN save_time_entries(ef, closed, w[1]) ELSE ef
        sf1 == set_active_task_id(sf, None, w[2])
        sf2 == set_current_time_entry_id(sf1, None, w[3])
    IN  [ef |-> ef1, sf |-> sf2]

\* The same operations on time entries that were not written by start_task:
\* an entry may lack the key start_time, or hold under it any JSON value.  A
\* str is either a timestamp (the record of what is printed) or a JString
\* that is no ISO-8601 text.
JZero == [t |-> "zero"]                 \* the number 0, which is falsy
IsStamp(x) == DOMAIN x = {"sec", "hasFrac", "frac", "tz"}
IsStr(x) == IF IsStamp(x) THEN TRUE ELSE x.t = "string"

\* Python's truth value of what json.load returns
Truthy(x) ==
    IF IsStamp(x) THEN TRUE
    ELSE x.t \notin {"null", "zero"} /\ x # JString(<<>>) /\ x # JArray(<<>>)

\* _calculate_duration on any start: start.replace raises AttributeError on a
\* value that is no str, outside of what `except (ValueError, TypeError)`
\* catches; fromisoformat raises ValueError, which is caught, on a str that
\* is no ISO-8601 text
DurationOfAny(start, stop) ==
    CASE stop = NoneT -> [raised |-> "none", value |-> 0]
      [] ~IsStr(start) -> [raised |-> "AttributeError", value |-> 0]
      [] ~IsStamp(start) -> [raised |-> "none", value |-> 0]
      [] OTHER -> [raised |-> "none", value |-> _calculate_duration(start, stop)]

\* entry["start_time"]
StartTimeOf(entry) ==
    IF "start_time" \in DOMAIN entry
    THEN [raised |-> "none", value |-> entry.start_time]
    ELSE [raised |-> "KeyError", value |-> JNull]

\* entry.get("start_time")
GetStartTime(entry) ==
    IF "start_time" \in DOMAIN entry THEN entry.start_time ELSE JNull

\* entry["stop_time"] = stop_time
\* entry["duration_seconds"] = _calculate_duration(entry["start_time"], stop_time)
CloseAny(entry, stop_time) ==
    LET got == StartTimeOf(entry)
        d == DurationOfAny(got.value, stop_time)
    IN  IF got.raised # "none" THEN [raised |-> got.raised, entry |-> entry]
        ELSE IF d.raised # "none" THEN [raised |-> d.raised, entry |-> entry]
        ELSE [raised |-> "none",
              entry |-> [entry EXCEPT !.stop_time = stop_time,
                                      !.duration_seconds = d.value]]

\* stop_task on any entries, the writes succeeding: an exception leaves the
\* loop before anything is saved
StopAny(ef, sf, task_id, at) ==
    IF get_active_task_id(sf) # task_id
    THEN [raised |-> "none", ret |-> FALSE, ef |-> ef, sf |-> sf]
    ELSE LET entries == load_time_entries(ef)
             open == OpenIndicesOf(entries, task_id)
         IN  IF open = {}
             THEN [raised |-> "none", ret |-> FALSE, ef |-> ef, sf |-> sf]
             ELSE LET i == MinOf(open)
                      c == CloseAny(entries[i], _now_iso(at))
                      ef1 == save_time_entries(ef, [entries EXCEPT ![i] = c.entry], "ok")
                      sf1 == set_active_task_id(sf, None, "ok")
                      sf2 == set_current_time_entry_id(sf1, None, "ok")
                  IN  IF c.raised # "none"
                      THEN [raised |-> c.raised, ret |-> FALSE, ef |-> ef, sf |-> sf]
                      ELSE [raised |-> "none", ret |-> TRUE, ef |-> ef1, sf |-> sf2]

\* stop_all_tasks on any entries, the writes succeeding
StopAllAny(ef, sf, at) ==
    LET entries == load_time_entries(ef)
        open == OpenIndices(entries)
        c == [i \in 1..Len(entries) |->
                IF i \in open THEN CloseAny(entries[i], _now_iso(at))
                ELSE [raised |-> "none", entry |-> entries[i]]]
        bad == {i \in open : c[i].raised # "none"}
        ef1 == IF open # {}
               THEN save_time_entries(ef, [i \in 1..Len(entries) |-> c[i].entry], "ok")
               ELSE ef
        sf1 == set_active_task_id(sf, None, "ok")
        sf2 == set_current_time_entry_id(sf1, None, "ok")
    IN  IF bad # {}
        THEN [raised |-> c[MinOf(bad)].raised, ef |-> ef, sf |-> sf]
        ELSE [raised |-> "none", ef |-> ef1, sf |-> sf2]

\* get_current_session_duration(entry_id) on any entries: the first entry of
\* this id whose start_time is truthy and which is open
SessionAny(ef, entry_id, at) ==
    LET entries == load_time_entries(ef)
        hits == {i \in 1..Len(entries) :
                   /\ entries[i].entry_id = entry_id
                   /\ Truthy(GetStartTime(entries[i]))
                   /\ IsOpen(entries[i])}
    IN  IF hits = {} THEN [raised |-> "none", value |-> 0]
        ELSE DurationOfAny(GetStartTime(entries[MinOf(hits)]), _now_iso(at))

\* The loop of get_total_time_for_task over entries[1..n], on any entries
RECURSIVE TotalAnyOver(_, _, _, _, _)
TotalAnyOver(ef, entries, n, task_id, at) ==
    IF n = 0 THEN [raised |-> "none", value |-> 0]
    ELSE LET before == TotalAnyOver(ef, entries, n - 1, task_id, at)
             this == IF entries[n].task_id # task_id THEN [raised |-> "none", value |-> 0]
                     ELSE IF IsOpen(entries[n])
                     THEN SessionAny(ef, entries[n].entry_id, at)
                     ELSE [raised |-> "none", value |-> entries[n].duration_seconds]
         IN  IF before.raised # "none" THEN before
             ELSE IF this.raised # "none" THEN this
             ELSE [raised |-> "none", value |-> before.value + this.value]

TotalAny(ef, task_id, at) ==
    TotalAnyOver(ef, load_time_entries(ef), Len(load_time_entries(ef)), task_id, at)

\* " ".join(parts)
RECURSIVE JoinParts(_)
JoinParts(parts) ==
    IF parts = <<>> THEN ""
    ELSE IF Len(parts) = 1 THEN parts[1]
    ELSE parts[1] \o " " \o JoinParts(Tail(parts))

\* _format_duration that leaves the seconds out whenever there are minutes
_format_duration_DropsSeconds(seconds) ==
    IF seconds = 0 THEN "0m"
    ELSE LET hours == seconds \div 3600
             minutes == (seconds % 3600) \div 60
             remaining_seconds == seconds % 60
             parts == (IF hours > 0 THEN <<ToString(hours) \o "h">> ELSE <<>>)
                      \o (IF minutes > 0 THEN <<ToString(minutes) \o "m">> ELSE <<>>)
                      \o (IF remaining_seconds > 0 /\ hours = 0 /\ minutes = 0
                          THEN <<ToString(remaining_seconds) \o "s">> ELSE <<>>)
         IN  IF parts # <<>> THEN JoinParts(parts) ELSE "0m"

\* _format_duration that gives the seconds also when there are hours
_format_duration_SecondsAlways(seconds) ==
    IF seconds = 0 THEN "0m"
    ELSE LET hours == seconds \div 3600
             minutes == (seconds % 3600) \div 60
             remaining_seconds == seconds % 60
             parts == (IF hours > 0 THEN <<ToString(hours) \o "h">> ELSE <<>>)
                      \o (IF minutes > 0 THEN <<ToString(minutes) \o "m">> ELSE <<>>)
                      \o (IF remaining_seconds > 0
                          THEN <<ToString(remaining_seconds) \o "s">> ELSE <<>>)
         IN  IF parts # <<>> THEN JoinParts(parts) ELSE "0m"

_format_duration(seconds) ==
    IF seconds = 0 THEN "0m"
    ELSE LET hours == seconds \div 3600
             minutes == (seconds % 3600) \div 60
             remaining_seconds == seconds % 60
             parts == (IF hours > 0 THEN <<ToString(hours) \o "h">> ELSE <<>>)
                      \o (IF minutes > 0 THEN <<ToString(minutes) \o "m">> ELSE <<>>)
                      \o (IF remaining_seconds > 0 /\ hours = 0
                          THEN <<ToString(remaining_seconds) \o "s">> ELSE <<>>)
         IN  IF parts # <<>> THEN JoinParts(parts) ELSE "0m"

\* The string "ACTIVE" in a slot that holds a timestamp
ActiveT == [sentinel |-> "ACTIVE"]

\* What csv.writer prints for a value: nothing for None
CsvCell(x) == IF x = NoneT THEN EmptyT ELSE x

\* tasks_dict.get(task_id, ""): the dictionary is built over the cache in
\* order, so the last task of an id gives its content
TaskContent(tf, task_id) ==
    LET tasks == load_tasks(tf)
        hits == {i \in 1..Len(tasks) : tasks[i].id = task_id}
    IN  IF hits = {} THEN ""
        ELSE Get(tasks[CHOOSE i \in hits : \A j \in hits : j <= i], "content", "")

\* The row export_time_report_csv writes for one entry
ReportRow(tf, ef, entry, at) ==
    LET task_id_entry == Get(entry, "task_id", "")
        stop_time == Get(entry, "stop_time", ActiveT)
        duration == IF stop_time = ActiveT
                    THEN get_current_session_duration(ef, Get(entry, "entry_id", ""), at)
                    ELSE Get(entry, "duration_seconds", 0)
    IN  [task_id |-> task_id_entry,
         task_content |-> TaskContent(tf, task_id_entry),
         entry_id |-> Get(entry, "entry_id", ""),
         start_time |-> CsvCell(Get(entry, "start_time", EmptyT)),
         stop_time |-> CsvCell(stop_time),
         duration_seconds |-> duration,
         duration_human |-> _format_duration(duration),
         notes |-> IF Get(entry, "notes", "") = None THEN "" ELSE Get(entry, "notes", "")]

\* export_time_report_csv(task_id): the rows under the header, and whether
\* the report file could be written
export_time_report_csv(tf, ef, task_id, at, outcome) ==
    LET all == load_time_entries(ef)
        entries == IF task_id # None /\ task_id # ""
                   THEN SelectSeq(all, LAMBDA e : Get(e, "task_id", None) = task_id)
                   ELSE all
    IN  IF WriteOk(outcome)
        THEN [ret |-> TRUE,
              rows |-> [i \in 1..Len(entries) |-> ReportRow(tf, ef, entries[i], at)]]
        ELSE [ret |-> FALSE, rows |-> <<>>]

-----------------------------------------------------------------------------
(* todoist_sync.py *)

\* What the remote service can answer.  NetError stands for every way
\* _make_request ends in None: unreachable, timed out after 30 s, a non-2xx
\* status, or a body that is not JSON.
NetError == [status |-> "error", json |-> "none", body |-> <<>>]
JsonObject == [status |-> "ok", json |-> "object", body |-> <<>>]
JsonList(tasks) == [status |-> "ok", json |-> "list", body |-> tasks]
NoRequest == [status |-> "none", json |-> "none", body |-> <<>>]

\* A timestamp set by the remote service, before the clock of the model starts
RemoteStamp == [sec |-> 0, hasFrac |-> TRUE, frac |-> 1, tz |-> "+00:00"]

\* The tasks the remote lists are made of: one with every field set, one with
\* only an id, and the first one as the remote service reports it once it
\* has been completed there.
RemoteCatalog ==
    << [id |-> "T1", content |-> "write", description |-> "", priority |-> 4,
        due |-> [datetime |-> RemoteStamp], project_id |-> "P1", labels |-> <<"home">>,
        is_completed |-> FALSE, completed_at |-> EmptyT, order |-> 2, url |-> "u1"],
       [id |-> "T2"],
       [id |-> "T1", content |-> "write", due |-> NoneT,
        is_completed |-> TRUE, completed_at |-> RemoteStamp] >>

\* The tasks of the catalog whose index is in S, in catalog order
RECURSIVE Pick(_, _)
Pick(S, n) ==
    IF n = 0 THEN <<>>
    ELSE IF n \in S THEN Append(Pick(S, n - 1), RemoteCatalog[n])
    ELSE Pick(S, n - 1)

RemoteLists ==
    {Pick(S, Len(RemoteCatalog)) :
        S \in {X \in SUBSET (1..Len(RemoteCatalog)) : Cardinality(X) <= MaxRemote}}

FetchResponses == {NetError, JsonObject} \cup {JsonList(l) : l \in RemoteLists}
CloseResponses == {NetError, JsonObject}

\* The answers used where the content of the task list does not matter: a
\* failure, and the first tasks of the catalog
FewResponses ==
    {NetError} \cup {JsonList(Pick(1..n, Len(RemoteCatalog))) : n \in 1..MaxRemote}

\* The answers used where the store is the matter: a failure, and the list
\* of the first task of the catalog
StoreResponses == {NetError, JsonList(Pick({1}, Len(RemoteCatalog)))}

_make_request(resp) == IF resp.status = "ok" THEN resp ELSE NoneT

fetch_tasks_from_api(resp) ==
    LET data == _make_request(resp)
    IN  IF data = NoneT THEN <<>>
        ELSE IF data.json = "list" THEN data.body ELSE <<>>

_convert_todoist_task(t) ==
    [id |-> Get(t, "id", None),
     content |-> Get(t, "content", ""),
     description |-> OrNone(Get(t, "description", None)),
     due_date |-> IF Get(t, "due", NoneT) # NoneT
                  THEN Get(Get(t, "due", NoneT), "datetime", NoneT)
                  ELSE NoneT,
     priority |-> Get(t, "priority", 1),
     project_id |-> Get(t, "project_id", None),
     labels |-> Get(t, "labels", <<>>),
     is_completed |-> Get(t, "is_completed", FALSE),
     completed_at |-> OrNoneT(Get(t, "completed_at", NoneT)),
     order |-> Get(t, "order", 0),
     url |-> OrNone(Get(t, "url", None))]

\* sync_tasks that merges: the local tasks the remote list does not name
\* are kept in front of the fetched ones
sync_tasks_Merges(tf, sf, resp, at, w) ==
    LET todoist_tasks == fetch_tasks_from_api(resp)
        fetched == [i \in 1..Len(todoist_tasks) |-> _convert_todoist_task(todoist_tasks[i])]
        kept == SelectSeq(load_tasks(tf),
                          LAMBDA t : \A i \in 1..Len(fetched) : fetched[i].id # t.id)
        tf1 == save_tasks(tf, kept \o fetched, at, w[1])
    IN  IF ~WriteOk(w[1])
        THEN [ret |-> FALSE, tf |-> tf1, sf |-> sf]
        ELSE [ret |-> TRUE, tf |-> tf1, sf |-> set_last_sync(sf, _now_iso(at), w[2])]

\* sync_tasks that stops the timer of a task the fetched list does not name
sync_tasks_StopsTimer(tf, sf, resp, at, w) ==
    LET todoist_tasks == fetch_tasks_from_api(resp)
        tasks == IF todoist_tasks = <<>> THEN <<>>
                 ELSE [i \in 1..Len(todoist_tasks) |-> _convert_todoist_task(todoist_tasks[i])]
        tf1 == save_tasks(tf, tasks, at, w[1])
        sf1 == IF task_exists(tf1, get_active_task_id(sf)) THEN sf
               ELSE set_active_task_id(sf, None, "ok")
    IN  IF ~WriteOk(w[1])
        THEN [ret |-> FALSE, tf |-> tf1, sf |-> sf]
        ELSE [ret |-> TRUE, tf |-> tf1, sf |-> set_last_sync(sf1, _now_iso(at), w[2])]

\* sync_tasks that stamps last_sync before it writes the tasks
sync_tasks_StampsFirst(tf, sf, resp, at, w) ==
    LET todoist_tasks == fetch_tasks_from_api(resp)
        tasks == IF todoist_tasks = <<>> THEN <<>>
                 ELSE [i \in 1..Len(todoist_tasks) |-> _convert_todoist_task(todoist_tasks[i])]
        sf1 == set_last_sync(sf, _now_iso(at), w[2])
        tf1 == save_tasks(tf, tasks, at, w[1])
    IN  [ret |-> WriteOk(w[1]), tf |-> tf1, sf |-> sf1]

\* sync_tasks.  w[1] is the outcome of the task write, w[2] that of the
\* last_sync write, whose result the code does not look at.
sync_tasks(tf, sf, resp, at, w) ==
    LET todoist_tasks == fetch_tasks_from_api(resp)
        tasks == IF todoist_tasks = <<>> THEN <<>>
                 ELSE [i \in 1..Len(todoist_tasks) |-> _convert_todoist_task(todoist_tasks[i])]
        tf1 == save_tasks(tf, tasks, at, w[1])
    IN  IF ~WriteOk(w[1])
        THEN [ret |-> FALSE, tf |-> tf1, sf |-> sf]
        ELSE [ret |-> TRUE, tf |-> tf1, sf |-> set_last_sync(sf, _now_iso(at), w[2])]

mark_complete_remote(resp) == _make_request(resp) # NoneT

mark_complete_local(tf, task_id, at, outcome) ==
    LET tasks == load_tasks(tf)
        hits == {i \in 1..Len(tasks) : tasks[i].id = task_id}
    IN  IF hits = {}
        THEN [ret |-> FALSE, tf |-> tf]
        ELSE LET i == MinOf(hits)
                 done == [tasks EXCEPT ![i].is_completed = TRUE,
                                       ![i].completed_at = _now_iso(at)]
             IN  [ret |-> WriteOk(outcome), tf |-> save_tasks(tf, done, at, outcome)]

-----------------------------------------------------------------------------
(* task_manager.py *)

get_time_entries_for_task(ef, task_id) ==
    SelectSeq(load_time_entries(ef), LAMBDA e : e.task_id = task_id)

get_task_summary(tf, ef, sf, task_id, at) ==
    LET tasks == load_tasks(tf)
        hits == {i \in 1..Len(tasks) : tasks[i].id = task_id}
        is_active == get_active_task_id(sf) = task_id
    IN  IF hits = {} THEN NoneT
        ELSE [task |-> tasks[MinOf(hits)],
              total_time_seconds |-> get_total_time_for_task(ef, task_id, at),
              total_time_entries |-> Len(get_time_entries_for_task(ef, task_id)),
              is_active |-> is_active,
              current_session_duration |->
                  IF is_active THEN get_current_session_duration(ef, None, at) ELSE 0,
              time_entries |-> get_time_entries_for_task(ef, task_id)]

get_active_task_summary(tf, ef, sf, at) ==
    LET active_task == get_active_task(tf, sf)
    IN  IF active_task = NoneT THEN NoneT
        ELSE get_task_summary(tf, ef, sf, active_task.id, at)

\* start_work_on_task: w[1], w[2] are the writes of the sync, w[3..5] those
\* of start_task
start_work_on_task(tf, ef, sf, task_id, resp, at, entry_id, w) ==
    LET synced == sync_tasks(tf, sf, resp, at, <<w[1], w[2]>>)
        started == start_task(synced.tf, ef, synced.sf, task_id, at, entry_id,
                              <<w[3], w[4], w[5]>>)
    IN  [ret |-> started.ret, tf |-> synced.tf, ef |-> started.ef, sf |-> started.sf]

\* complete_task that gives up when the remote service does not acknowledge
complete_task_StopsAtRemoteFailure(tf, ef, sf, task_id, resp, at, w) ==
    LET attempted == get_active_task_id(sf) = task_id
        stopped == IF attempted
                   THEN stop_task(ef, sf, task_id, at, <<w[1], w[2], w[3]>>)
                   ELSE [ret |-> TRUE, ef |-> ef, sf |-> sf]
        remote == mark_complete_remote(resp)
        local == IF remote THEN mark_complete_local(tf, task_id, at, w[4])
                 ELSE [ret |-> FALSE, tf |-> tf]
    IN  [ret |-> stopped.ret /\ remote /\ local.ret,
         tf |-> local.tf, ef |-> stopped.ef, sf |-> stopped.sf,
         stop |-> IF ~attempted THEN "skipped" ELSE IF stopped.ret THEN "ok" ELSE "failed",
         remote |-> IF remote THEN "ok" ELSE "failed",
         local |-> IF ~remote THEN "skipped" ELSE IF local.ret THEN "ok" ELSE "failed"]

\* complete_task that leaves a task alone that is completed already
complete_task_SkipsCompleted(tf, ef, sf, task_id, resp, at, w) ==
    LET attempted == get_active_task_id(sf) = task_id
        stopped == IF attempted
                   THEN stop_task(ef, sf, task_id, at, <<w[1], w[2], w[3]>>)
                   ELSE [ret |-> TRUE, ef |-> ef, sf |-> sf]
        remote == mark_complete_remote(resp)
        already == task_id \in {load_tasks(tf)[i].id :
                                  i \in {j \in 1..Len(load_tasks(tf)) :
                                           load_tasks(tf)[j].is_completed}}
        local == IF already THEN [ret |-> FALSE, tf |-> tf]
                 ELSE mark_complete_local(tf, task_id, at, w[4])
    IN  [ret |-> stopped.ret /\ remote /\ local.ret,
         tf |-> local.tf, ef |-> stopped.ef, sf |-> stopped.sf,
         stop |-> IF ~attempted THEN "skipped" ELSE IF stopped.ret THEN "ok" ELSE "failed",
         remote |-> IF remote THEN "ok" ELSE "failed",
         local |-> IF already THEN "skipped" ELSE IF local.ret THEN "ok" ELSE "failed"]

\* complete_task: w[1..3] are the writes of stop_task, w[4] the task write of
\* mark_complete_local.  stop, remote and local tell how each step ended.
complete_task(tf, ef, sf, task_id, resp, at, w) ==
    LET attempted == get_active_task_id(sf) = task_id
        stopped == IF attempted
                   THEN stop_task(ef, sf, task_id, at, <<w[1], w[2], w[3]>>)
                   ELSE [ret |-> TRUE, ef |-> ef, sf |-> sf]
        remote == mark_complete_remote(resp)
        local == mark_complete_local(tf, task_id, at, w[4])
    IN  [ret |-> stopped.ret /\ remote /\ local.ret,
         tf |-> local.tf, ef |-> stopped.ef, sf |-> stopped.sf,
         stop |-> IF ~attempted THEN "skipped" ELSE IF stopped.ret THEN "ok" ELSE "failed",
         remote |-> IF remote THEN "ok" ELSE "failed",
         local |-> IF local.ret THEN "ok" ELSE "failed"]

-----------------------------------------------------------------------------
(* The state machine: one action per operation, run one at a time *)

DoneIds(tf) ==
    {load_tasks(tf)[i].id : i \in {j \in 1..Len(load_tasks(tf)) : load_tasks(tf)[j].is_completed}}

\* The record of an operation: what it was given, what it returned, and
\* what the store looked like when it began.
Ran(op, task, ret, val, resp, steps) ==
    [op |-> op, task |-> task, ret |-> ret, val |-> val, resp |-> resp, steps |-> steps,
     writes |-> <<>>, rows |-> <<>>,
     preActive |-> get_active_task_id(stateFile),
     preEntry |-> get_current_time_entry_id(stateFile),
     preCached |-> task_exists(tasksFile, task),
     preOpen |-> OpenIndicesOf(load_time_entries(entriesFile), task) # {},
     preDone |-> DoneIds(tasksFile)]

NoSteps == [stop |-> "skipped", remote |-> "skipped", local |-> "skipped"]

\* The same record for an operation of the timer or of the task cache, with
\* the outcomes of the writes the operation performed: w gives an outcome to
\* each write the code of the operation contains, performed those it got to
RanW(op, task, ret, resp, w, performed) ==
    [Ran(op, task, ret, 0, resp, NoSteps) EXCEPT !.writes = [i \in performed |-> w[i]]]

\* A write that is not performed has no outcome: of the outcomes w, only
\* those of the performed writes are a choice
Drawn(w, performed) == \A i \in (DOMAIN w) \ performed : w[i] = "ok"

\* The writes start_task gets to: none when it refuses, the time-entry write,
\* and the two state writes once the time-entry write succeeded
start_task_writes(tf, sf, task_id, w) ==
    IF ~StartPassesChecks(tf, sf, task_id) THEN {}
    ELSE IF WriteOk(w[1]) THEN {1, 2, 3} ELSE {1}

stop_task_writes(ef, sf, task_id, w) ==
    IF get_active_task_id(sf) # task_id THEN {}
    ELSE IF OpenIndicesOf(load_time_entries(ef), task_id) = {} THEN {}
    ELSE IF WriteOk(w[1]) THEN {1, 2, 3} ELSE {1}

stop_all_tasks_writes(ef) ==
    IF OpenIndices(load_time_entries(ef)) # {} THEN {1, 2, 3} ELSE {2, 3}

sync_tasks_writes(w) == IF WriteOk(w[1]) THEN {1, 2} ELSE {1}

mark_complete_local_writes(tf, task_id) ==
    IF task_exists(tf, task_id) THEN {1} ELSE {}

\* The threads that may be inside start_task, stop_task or sync_tasks at the
\* same time: the request handlers and the background sync
Procs == {"p1", "p2"}

\* A thread that is in no operation
\* (pc: the statement it is at; op, task, ret: its last call and what it
\* returned; entries, state: the lists and records it has loaded; entry: the
\* id of the entry its last call made; loaded: the entries as they were when it loaded them;
\* raced: some call of its overlapped a call of another thread; stale: it
\* wrote back a list or a record that another thread had rewritten since it
\* was loaded)
Quiet ==
    [pc |-> "idle", op |-> "none", task |-> None, ret |-> FALSE,
     entries |-> <<>>, state |-> DefaultState, entry |-> None, loaded |-> <<>>,
     raced |-> FALSE, stale |-> FALSE]

InitProcs == procs = [p \in Procs |-> Quiet]

\* background_sync.py at import: no thread, no event, no token, the default
\* interval, the lock free
DefaultInterval == 300
MinInterval == 60

ThreadIds == 1..MaxThreads
\* Every control operation runs under _sync_lock from its first statement to
\* its return, so concurrent callers are served one after the other: one
\* caller making one call after the other stands for them.
Callers == {"c1"}
Tokens == {"tokA", "tokB"}
Intervals == {30}

\* A Thread object that has not been created yet
\* (pc: where it is in _sync_loop; ev: the Event it waits on; rest: how its
\* last wait ended, if it has waited since its last sync; how: the value of
\* rest when the sync it is in began; late: the syncs it began since the last
\* stop signal)
Unborn == [pc |-> "unborn", ev |-> 0, rest |-> "first", how |-> "-", late |-> 0]

\* A thread that has ended
Ended == [Unborn EXCEPT !.pc = "done"]

\* A caller that is in no control operation
\* (ret, val: what the operation returned; syncs, tok, res: the calls of
\* sync_tasks it made, with which token, returning what)
Idle == [pc |-> "idle", op |-> "none", token |-> None, interval |-> 0,
         ret |-> FALSE, val |-> 0, syncs |-> 0, tok |-> None, res |-> FALSE]

InitSched ==
    /\ _sync_thread = 0
    /\ _sync_stop_event = 0
    /\ _sync_token = None
    /\ _sync_interval = DefaultInterval
    /\ _sync_lock = None
    /\ threads = [k \in ThreadIds |-> Unborn]
    /\ eventSet = {}
    /\ callers = [c \in Callers |-> Idle]
    /\ hist = [armed |-> FALSE, everStarted |-> FALSE, lastToken |-> None]

Init ==
    /\ InitSched
    /\ InitProcs
    /\ tasksFile = Absent
    /\ entriesFile = Absent
    /\ stateFile = Absent
    /\ now = 0
    /\ uuidSeq = 0
    /\ last = [op |-> "init", task |-> None, ret |-> TRUE, val |-> 0, resp |-> NoRequest,
               steps |-> NoSteps, writes |-> <<>>, rows |-> <<>>,
               preActive |-> None, preEntry |-> None,
               preCached |-> FALSE, preOpen |-> FALSE, preDone |-> {}]

\* Time passes between two operations
Tick ==
    /\ now < MaxClock
    /\ now' = now + 1
    /\ last' = Ran("tick", None, TRUE, 0, NoRequest, NoSteps)
    /\ UNCHANGED <<tasksFile, entriesFile, stateFile, uuidSeq>>
    /\ UNCHANGED <<sched, procs>>

Start(t, W) ==
    /\ StartPassesChecks(tasksFile, stateFile, t) => uuidSeq < MaxEntries
    /\ \E w \in [1..3 -> W] :
         LET r == start_task(tasksFile, entriesFile, stateFile, t, now,
                             _generate_entry_id(uuidSeq + 1), w)
             performed == start_task_writes(tasksFile, stateFile, t, w)
         IN  /\ Drawn(w, performed)
             /\ entriesFile' = r.ef
             /\ stateFile' = r.sf
             /\ last' = RanW("start", t, r.ret, NoRequest, w, performed)
    /\ uuidSeq' = IF StartPassesChecks(tasksFile, stateFile, t) THEN uuidSeq + 1 ELSE uuidSeq
    /\ UNCHANGED <<tasksFile, now>>
    /\ UNCHANGED <<sched, procs>>

Stop(t, W) ==
    /\ \E w \in [1..3 -> W] :
         LET r == stop_task(entriesFile, stateFile, t, now, w)
             performed == stop_task_writes(entriesFile, stateFile, t, w)
         IN  /\ Drawn(w, performed)
             /\ entriesFile' = r.ef
             /\ stateFile' = r.sf
             /\ last' = RanW("stop", t, r.ret, NoRequest, w, performed)
    /\ UNCHANGED <<tasksFile, now, uuidSeq>>
    /\ UNCHANGED <<sched, procs>>

StopAll(W) ==
    /\ \E w \in [1..3 -> W] :
         LET r == stop_all_tasks(entriesFile, stateFile, now, w)
             performed == stop_all_tasks_writes(entriesFile)
         IN  /\ Drawn(w, performed)
             /\ entriesFile' = r.ef
             /\ stateFile' = r.sf
             /\ last' = RanW("stopAll", None, TRUE, NoRequest, w, performed)
    /\ UNCHANGED <<tasksFile, now, uuidSeq>>
    /\ UNCHANGED <<sched, procs>>

Sync(resp, W) ==
    /\ \E w \in [1..2 -> W] :
         LET r == sync_tasks(tasksFile, stateFile, resp, now, w)
         IN  /\ Drawn(w, sync_tasks_writes(w))
             /\ tasksFile' = r.tf
             /\ stateFile' = r.sf
             /\ last' = RanW("sync", None, r.ret, resp, w, sync_tasks_writes(w))
    /\ UNCHANGED <<entriesFile, now, uuidSeq>>
    /\ UNCHANGED <<sched, procs>>

MarkCompleteLocal(t, W) ==
    /\ \E w \in [1..1 -> W] :
         LET r == mark_complete_local(tasksFile, t, now, w[1])
             performed == mark_complete_local_writes(tasksFile, t)
         IN  /\ Drawn(w, performed)
             /\ tasksFile' = r.tf
             /\ last' = RanW("markCompleteLocal", t, r.ret, NoRequest, w, performed)
    /\ UNCHANGED <<entriesFile, stateFile, now, uuidSeq>>
    /\ UNCHANGED <<sched, procs>>

StartWork(t, resp, W) ==
    /\ \E w \in [1..5 -> W] :
         LET r == start_work_on_task(tasksFile, entriesFile, stateFile, t, resp, now,
                                     _generate_entry_id(uuidSeq + 1), w)
             synced == sync_tasks(tasksFile, stateFile, resp, now, <<w[1], w[2]>>)
             generates == StartPassesChecks(synced.tf, synced.sf, t)
         IN  /\ generates => uuidSeq < MaxEntries
             /\ tasksFile' = r.tf
             /\ entriesFile' = r.ef
             /\ stateFile' = r.sf
             /\ uuidSeq' = IF generates THEN uuidSeq + 1 ELSE uuidSeq
             /\ last' = Ran("startWork", t, r.ret, 0, resp, NoSteps)
    /\ UNCHANGED now
    /\ UNCHANGED <<sched, procs>>

CompleteTask(t, resp, W) ==
    /\ \E w \in [1..4 -> W] :
         LET r == complete_task(tasksFile, entriesFile, stateFile, t, resp, now, w)
         IN  /\ tasksFile' = r.tf
             /\ entriesFile' = r.ef
             /\ stateFile' = r.sf
             /\ last' = Ran("completeTask", t, r.ret, 0, resp,
                            [stop |-> r.stop, remote |-> r.remote, local |-> r.local])
    /\ UNCHANGED <<now, uuidSeq>>
    /\ UNCHANGED <<sched, procs>>

\* The query GET /api/time/<task_id>
TotalTime(t) ==
    /\ last' = Ran("totalTime", t, TRUE, get_total_time_for_task(entriesFile, t, now),
                   NoRequest, NoSteps)
    /\ UNCHANGED <<tasksFile, entriesFile, stateFile, now, uuidSeq>>
    /\ UNCHANGED <<sched, procs>>

\* export_time_report_csv, for one task or (None) for all of them
Export(t, W) ==
    /\ \E o \in W :
         LET r == export_time_report_csv(tasksFile, entriesFile, t, now, o)
         IN  last' = [Ran("export", t, r.ret, 0, NoRequest, NoSteps) EXCEPT !.rows = r.rows]
    /\ UNCHANGED <<tasksFile, entriesFile, stateFile, now, uuidSeq>>
    /\ UNCHANGED <<sched, procs>>

\* The session of the scenario: five and a half minutes pass at once, and
\* the clock does not tick after that
SessionTicks == 330 * SubSec

Elapse ==
    /\ now < MaxClock
    /\ now' = now + SessionTicks
    /\ last' = Ran("elapse", None, TRUE, 0, NoRequest, NoSteps)
    /\ UNCHANGED <<tasksFile, entriesFile, stateFile, uuidSeq>>
    /\ UNCHANGED <<sched, procs>>

\* The timer and its queries, while the clock runs
TimerOps(W) ==
    \/ \E t \in TaskIds : Start(t, W)
    \/ \E t \in TaskIds : Stop(t, W)
    \/ StopAll(W)
    \/ \E resp \in FewResponses : Sync(resp, W)
    \/ \E t \in TaskIds : TotalTime(t)

\* Every write to the store succeeds
Next == Tick \/ TimerOps(ReliableStore)

Spec == Init /\ [][Next]_vars

\* The operations on the task cache and the workflows of the task manager,
\* against every answer of the remote service, at one instant of the clock
TaskOps(W) ==
    \/ \E t \in TaskIds : Start(t, W)
    \/ \E t \in TaskIds : Stop(t, W)
    \/ StopAll(W)
    \/ \E resp \in FetchResponses : Sync(resp, W)
    \/ \E t \in TaskIds : MarkCompleteLocal(t, W)
    \/ \E t \in TaskIds, resp \in FetchResponses : StartWork(t, resp, W)
    \/ \E t \in TaskIds, resp \in CloseResponses : CompleteTask(t, resp, W)

NextTasks == TaskOps(ReliableStore)

SpecTasks == Init /\ [][NextTasks]_vars

\* The timer and the report of the time entries, while the clock runs
ReportOps(W) ==
    \/ \E t \in TaskIds : Start(t, W)
    \/ \E t \in TaskIds : Stop(t, W)
    \/ \E resp \in FewResponses : Sync(resp, W)
    \/ \E t \in TaskIds \cup {None} : Export(t, W)

NextReport == Tick \/ Elapse \/ ReportOps(ReliableStore)

SpecReport == Init /\ [][NextReport]_vars

\* The timer and the task cache on a store where any write may fail
StoreOps(W) ==
    \/ \E t \in TaskIds : Start(t, W)
    \/ \E t \in TaskIds : Stop(t, W)
    \/ StopAll(W)
    \/ \E resp \in StoreResponses : Sync(resp, W)
    \/ \E t \in TaskIds : MarkCompleteLocal(t, W)

NextIO == StoreOps(FailingStore)

SpecIO == Init /\ [][NextIO]_vars

\* The loaders on files that hold anything at all: the three files start with
\* any of the contents, and each load reports what it returned or raised.
InitLoad ==
    /\ tasksFile \in FileContents("tasks")
    /\ entriesFile \in FileContents("entries")
    /\ stateFile \in FileContents("state")
    /\ now = 0
    /\ uuidSeq = 0
    /\ last = [op |-> "none"]
    /\ InitSched
    /\ InitProcs

FileOf(kind) ==
    CASE kind = "tasks" -> tasksFile
      [] kind = "entries" -> entriesFile
      [] OTHER -> stateFile

LoadFile(kind) ==
    /\ last' = [op |-> "load", kind |-> kind, raw |-> FileOf(kind),
                out |-> Load(kind, FileOf(kind))]
    /\ UNCHANGED <<tasksFile, entriesFile, stateFile, now, uuidSeq, sched, procs>>

NextLoad == \E kind \in Kinds : LoadFile(kind)

SpecLoad == InitLoad /\ [][NextLoad]_vars

\* The timer on an open entry that start_task did not write: the entry of the
\* running task lacks its start_time or holds any value under it.
OpenEntryBase(t) ==
    [entry_id |-> _generate_entry_id(1), task_id |-> t, stop_time |-> NoneT,
     duration_seconds |-> 0, notes |-> None]

StartTimes ==
    {JNull, JNumber, JZero, JBool, JArray(<<JString(<<"x">>)>>),
     JString(<<>>), JString(<<"yesterday">>), IsoFormat(0), _now_iso(0)}

OpenEntries(t) ==
    {OpenEntryBase(t)} \cup
    {[x \in DOMAIN OpenEntryBase(t) \cup {"start_time"} |->
        IF x = "start_time" THEN st ELSE OpenEntryBase(t)[x]] : st \in StartTimes}

InitAny ==
    /\ \E t \in TaskIds :
         /\ entriesFile \in {[version |-> "1", entries |-> <<e>>] : e \in OpenEntries(t)}
         /\ stateFile = [version |-> "1",
                         state |-> [DefaultState EXCEPT
                                      !.active_task_id = t,
                                      !.current_time_entry_id = _generate_entry_id(1)]]
    /\ tasksFile = Absent
    /\ now = 0
    /\ uuidSeq = 1
    /\ last = [op |-> "none"]
    /\ InitSched
    /\ InitProcs

TickAny ==
    /\ now < MaxClock
    /\ now' = now + 1
    /\ last' = [op |-> "tick"]
    /\ UNCHANGED <<tasksFile, entriesFile, stateFile, uuidSeq, sched, procs>>

StopOnAny(t) ==
    /\ LET r == StopAny(entriesFile, stateFile, t, now)
       IN  /\ entriesFile' = r.ef
           /\ stateFile' = r.sf
           /\ last' = [op |-> "stop", task |-> t, raised |-> r.raised, ret |-> r.ret,
                       open |-> OpenIndicesOf(load_time_entries(entriesFile), t),
                       active |-> get_active_task_id(stateFile)]
    /\ UNCHANGED <<tasksFile, now, uuidSeq, sched, procs>>

StopAllOnAny ==
    /\ LET r == StopAllAny(entriesFile, stateFile, now)
       IN  /\ entriesFile' = r.ef
           /\ stateFile' = r.sf
           /\ last' = [op |-> "stopAll", raised |-> r.raised,
                       open |-> OpenIndices(load_time_entries(entriesFile))]
    /\ UNCHANGED <<tasksFile, now, uuidSeq, sched, procs>>

TotalTimeOnAny(t) ==
    /\ LET r == TotalAny(entriesFile, t, now)
       IN  last' = [op |-> "totalTime", task |-> t, raised |-> r.raised, val |-> r.value,
                    open |-> OpenIndicesOf(load_time_entries(entriesFile), t)]
    /\ UNCHANGED <<tasksFile, entriesFile, stateFile, now, uuidSeq, sched, procs>>

NextAny ==
    \/ TickAny
    \/ \E t \in TaskIds : StopOnAny(t)
    \/ StopAllOnAny
    \/ \E t \in TaskIds : TotalTimeOnAny(t)

SpecAny == InitAny /\ [][NextAny]_vars

\* start_task, stop_task and sync_tasks statement by statement: every load
\* and every save of a file is a step of its own, and the steps of the
\* threads in P interleave.  Nothing in the program serialises them.  The
\* writes succeed and the clock stands still.
OtherBusy(p) == \E q \in Procs \ {p} : procs[q].pc # "idle"

\* A thread enters an operation
Begin(p, op, t) ==
    /\ procs[p].pc = "idle"
    /\ procs' = [q \in Procs |->
                   IF q = p
                   THEN [Quiet EXCEPT !.pc = CASE op = "start" -> "s_exists"
                                              [] op = "stop" -> "t_active"
                                              [] OTHER -> "y_save",
                                      !.op = op, !.task = t,
                                      !.raced = procs[p].raced \/ OtherBusy(p),
                                      !.stale = procs[p].stale]
                   ELSE IF procs[q].pc # "idle" THEN [procs[q] EXCEPT !.raced = TRUE]
                   ELSE procs[q]]
    /\ UNCHANGED <<tasksFile, entriesFile, stateFile, now, uuidSeq, last, sched>>

\* The thread returns ret
Finish(p, ret) ==
    procs' = [procs EXCEPT ![p] =
                [Quiet EXCEPT !.op = procs[p].op, !.task = procs[p].task, !.ret = ret,
                              !.entry = procs[p].entry,
                              !.raced = procs[p].raced, !.stale = procs[p].stale]]

Goto(p, pc) == procs' = [procs EXCEPT ![p].pc = pc]

\* start_task: `if not task_exists(task_id): return False`
StartExists(p) ==
    /\ procs[p].pc = "s_exists"
    /\ IF task_exists(tasksFile, procs[p].task) THEN Goto(p, "s_active") ELSE Finish(p, FALSE)
    /\ UNCHANGED <<tasksFile, entriesFile, stateFile, now, uuidSeq, last, sched>>

\* start_task that does not look at active_task_id
StartActive_NoCheck(p) ==
    /\ procs[p].pc = "s_active"
    /\ uuidSeq < MaxEntries
    /\ procs' = [procs EXCEPT ![p].pc = "s_load",
                              ![p].entry = _generate_entry_id(uuidSeq + 1)]
    /\ uuidSeq' = uuidSeq + 1
    /\ UNCHANGED <<tasksFile, entriesFile, stateFile, now, last, sched>>

\* start_task: `if get_active_task_id() is not None: return False`, and the
\* entry id of the new entry
StartActive(p) ==
    /\ procs[p].pc = "s_active"
    /\ IF get_active_task_id(stateFile) # None
       THEN Finish(p, FALSE) /\ UNCHANGED uuidSeq
       ELSE /\ uuidSeq < MaxEntries
            /\ procs' = [procs EXCEPT ![p].pc = "s_load",
                                      ![p].entry = _generate_entry_id(uuidSeq + 1)]
            /\ uuidSeq' = uuidSeq + 1
    /\ UNCHANGED <<tasksFile, entriesFile, stateFile, now, last, sched>>

\* start_task: `entries = load_time_entries()` and `entries.append(entry)`
StartLoad(p) ==
    /\ procs[p].pc = "s_load"
    /\ procs' = [procs EXCEPT
                   ![p].pc = "s_save",
                   ![p].loaded = load_time_entries(entriesFile),
                   ![p].entries =
                       Append(load_time_entries(entriesFile),
                              [entry_id |-> procs[p].entry, task_id |-> procs[p].task,
                               start_time |-> _now_iso(now), stop_time |-> NoneT,
                               duration_seconds |-> 0, notes |-> None])]
    /\ UNCHANGED <<tasksFile, entriesFile, stateFile, now, uuidSeq, last, sched>>

\* stop_task: `if get_active_task_id() != task_id: return False`
StopActive(p) ==
    /\ procs[p].pc = "t_active"
    /\ IF get_active_task_id(stateFile) # procs[p].task
       THEN Finish(p, FALSE) ELSE Goto(p, "t_load")
    /\ UNCHANGED <<tasksFile, entriesFile, stateFile, now, uuidSeq, last, sched>>

\* stop_task: `entries = load_time_entries()` and the loop that closes the
\* first open entry of the task
StopLoad(p) ==
    /\ procs[p].pc = "t_load"
    /\ LET entries == load_time_entries(entriesFile)
           open == OpenIndicesOf(entries, procs[p].task)
       IN  IF open = {} THEN Finish(p, FALSE)
           ELSE procs' = [procs EXCEPT
                            ![p].pc = "t_save",
                            ![p].loaded = entries,
                            ![p].entries =
                                [entries EXCEPT ![MinOf(open)] =
                                    CloseEntry(entries[MinOf(open)], _now_iso(now))]]
    /\ UNCHANGED <<tasksFile, entriesFile, stateFile, now, uuidSeq, last, sched>>

\* start_task and stop_task that go on to the pointers without saving
SaveEntries_Skips(p) ==
    /\ procs[p].pc \in {"s_save", "t_save"}
    /\ procs' = [procs EXCEPT ![p].pc = "a_load", ![p].entries = <<>>, ![p].loaded = <<>>]
    /\ UNCHANGED <<tasksFile, entriesFile, stateFile, now, uuidSeq, last, sched>>

\* start_task and stop_task: `save_time_entries(entries)`
SaveEntries(p) ==
    /\ procs[p].pc \in {"s_save", "t_save"}
    /\ entriesFile' = save_time_entries(entriesFile, procs[p].entries, "ok")
    /\ procs' = [procs EXCEPT
                   ![p].pc = "a_load", ![p].entries = <<>>, ![p].loaded = <<>>,
                   ![p].stale = @ \/ load_time_entries(entriesFile) # procs[p].loaded]
    /\ UNCHANGED <<tasksFile, stateFile, now, uuidSeq, last, sched>>

\* sync_tasks: the fetch and `save_tasks(local_tasks)`
SyncSave(p, resp) ==
    /\ procs[p].pc = "y_save"
    /\ tasksFile' = sync_tasks(tasksFile, stateFile, resp, now, <<"ok", "ok">>).tf
    /\ Goto(p, "l_load")
    /\ UNCHANGED <<entriesFile, stateFile, now, uuidSeq, last, sched>>

\* The field a mutator of task_state.py sets, and the value it sets it to:
\* set_active_task_id, then set_current_time_entry_id (the task and the new
\* entry in start_task, None in stop_task), or set_last_sync in sync_tasks
FieldAt(pc) ==
    CASE pc \in {"a_load", "a_save"} -> "active_task_id"
      [] pc \in {"e_load", "e_save"} -> "current_time_entry_id"
      [] OTHER -> "last_sync"

ValueAt(p) ==
    CASE procs[p].pc = "l_save" -> _now_iso(now)
      [] procs[p].op = "stop" -> None
      [] procs[p].pc = "a_save" -> procs[p].task
      [] OTHER -> procs[p].entry

\* A mutator of task_state.py: `state = load_state()`
LoadState(p) ==
    /\ procs[p].pc \in {"a_load", "e_load", "l_load"}
    /\ procs' = [procs EXCEPT
                   ![p].pc = CASE procs[p].pc = "a_load" -> "a_save"
                               [] procs[p].pc = "e_load" -> "e_save"
                               [] OTHER -> "l_save",
                   ![p].state = load_state(stateFile)]
    /\ UNCHANGED <<tasksFile, entriesFile, stateFile, now, uuidSeq, last, sched>>

\* A set_last_sync that writes a fresh record holding the stamp alone
SaveState_Resets(p) ==
    /\ procs[p].pc \in {"a_save", "e_save", "l_save"}
    /\ stateFile' = save_state(stateFile,
                               [(IF procs[p].pc = "l_save" THEN DefaultState
                                 ELSE procs[p].state)
                                  EXCEPT ![FieldAt(procs[p].pc)] = ValueAt(p)], "ok")
    /\ IF procs[p].pc = "a_save"
       THEN procs' = [procs EXCEPT ![p].pc = "e_load", ![p].state = DefaultState]
       ELSE Finish(p, TRUE)
    /\ UNCHANGED <<tasksFile, entriesFile, now, uuidSeq, last, sched>>

\* A mutator of task_state.py: `state[field] = value` and
\* `return save_state(state)`, the whole record as it was loaded
SaveState(p) ==
    /\ procs[p].pc \in {"a_save", "e_save", "l_save"}
    /\ stateFile' = save_state(stateFile,
                               [procs[p].state EXCEPT ![FieldAt(procs[p].pc)] = ValueAt(p)],
                               "ok")
    /\ IF procs[p].pc = "a_save"
       THEN procs' = [procs EXCEPT
                        ![p].pc = "e_load", ![p].state = DefaultState,
                        ![p].stale = @ \/ load_state(stateFile) # procs[p].state]
       ELSE procs' = [procs EXCEPT ![p] =
                        [Quiet EXCEPT !.op = procs[p].op, !.task = procs[p].task,
                                      !.ret = TRUE, !.entry = procs[p].entry,
                                      !.raced = procs[p].raced,
                                      !.stale = procs[p].stale
                                                \/ load_state(stateFile) # procs[p].state]]
    /\ UNCHANGED <<tasksFile, entriesFile, now, uuidSeq, last, sched>>

StepsOf(P) ==
    \/ \E p \in P, t \in TaskIds : Begin(p, "start", t)
    \/ \E p \in P, t \in TaskIds : Begin(p, "stop", t)
    \/ \E p \in P : Begin(p, "sync", None)
    \/ \E p \in P : StartExists(p)
    \/ \E p \in P : StartActive(p)
    \/ \E p \in P : StartLoad(p)
    \/ \E p \in P : StopActive(p)
    \/ \E p \in P : StopLoad(p)
    \/ \E p \in P : SaveEntries(p)
    \/ \E p \in P, resp \in StoreResponses : SyncSave(p, resp)
    \/ \E p \in P : LoadState(p)
    \/ \E p \in P : SaveState(p)

\* One thread on its own: the intermediate states of each operation
NextSteps == StepsOf({"p1"})

SpecSteps == Init /\ [][NextSteps]_vars

\* Two threads with nothing to keep them apart
NextRace == StepsOf(Procs)

SpecRace == Init /\ [][NextRace]_vars

\* The task cache under sync and local completion, when the remote service
\* answers with tasks as it has them: a completed task without completed_at
\* (the remote task object has no such field), and a completed_at on a task
\* that is not completed.
RemoteAsIs ==
    << [id |-> "T1", content |-> "write", is_completed |-> TRUE],
       [id |-> "T2", is_completed |-> FALSE, completed_at |-> RemoteStamp] >>

AsIsResponses ==
    FetchResponses \cup {JsonList(<<RemoteAsIs[i]>>) : i \in 1..Len(RemoteAsIs)}
                   \cup {JsonList(RemoteAsIs)}

CacheOps(W) ==
    \/ \E resp \in AsIsResponses : Sync(resp, W)
    \/ \E t \in TaskIds : MarkCompleteLocal(t, W)

NextCache == Tick \/ CacheOps(ReliableStore)

SpecCache == Init /\ [][NextCache]_vars

\* The operations that write or could write the time entries, one at a time
\* while the clock runs
LedgerOps(W) ==
    \/ \E t \in TaskIds : Start(t, W)
    \/ \E t \in TaskIds : Stop(t, W)
    \/ StopAll(W)
    \/ \E resp \in FewResponses : Sync(resp, W)
    \/ \E t \in TaskIds, resp \in CloseResponses : CompleteTask(t, resp, W)

NextLedger == Tick \/ LedgerOps(ReliableStore)

SpecLedger == Init /\ [][NextLedger]_vars

\* _format_duration on its own: a duration is drawn, and formatted
Durations ==
    {h * 3600 + m * 60 + r : h \in 0..MaxHours, m \in {0, 1, 5, 59}, r \in {0, 1, 30, 59}}

InitFormat ==
    /\ last \in {[op |-> "input", seconds |-> d] : d \in Durations}
    /\ tasksFile = Absent
    /\ entriesFile = Absent
    /\ stateFile = Absent
    /\ now = 0
    /\ uuidSeq = 0
    /\ InitSched
    /\ InitProcs

Format ==
    /\ last.op = "input"
    /\ last' = [op |-> "format", seconds |-> last.seconds,
                out |-> _format_duration(last.seconds)]
    /\ UNCHANGED <<tasksFile, entriesFile, stateFile, now, uuidSeq, sched, procs>>

NextFormat == Format

SpecFormat == InitFormat /\ [][NextFormat]_vars

-----------------------------------------------------------------------------
(* background_sync.py: the control operations, each under _sync_lock, and   *)
(* the threads running _sync_loop, which read the globals without the lock. *)
(* A thread can be preempted between any two reads of a global, so every    *)
(* such read is a step of its own.                                          *)

\* Thread.is_alive()
IsAlive(k) == threads[k].pc \notin {"unborn", "done"}

Created == Cardinality({k \in ThreadIds : threads[k].pc # "unborn"})

\* _sync_thread is not None and _sync_thread.is_alive()
ThreadRunning == _sync_thread # 0 /\ IsAlive(_sync_thread)

Max(a, b) == IF a >= b THEN a ELSE b

\* A caller enters a control operation and comes to `with _sync_lock`
Call(c, op, tok, iv) ==
    /\ callers[c].pc = "idle"
    /\ op = "start" => Created < MaxThreads
    /\ callers' = [callers EXCEPT ![c] =
                     [Idle EXCEPT !.pc = "acquire", !.op = op, !.token = tok, !.interval = iv]]
    /\ UNCHANGED <<_sync_thread, _sync_stop_event, _sync_token, _sync_interval, _sync_lock,
                   threads, eventSet, hist>>
    /\ UNCHANGED <<tasksFile, entriesFile, stateFile, now, uuidSeq, last, procs>>

\* The caller returns ret (and val) and is in no operation any more
Return(c, ret, val) ==
    [callers[c] EXCEPT !.pc = "idle", !.token = None, !.interval = 0,
                       !.ret = ret, !.val = val]

\* start_background_sync under the lock
start_background_sync(c) ==
    IF ThreadRunning
    THEN /\ callers' = [callers EXCEPT ![c] = Return(c, FALSE, 0)]
         /\ UNCHANGED <<_sync_thread, _sync_stop_event, _sync_token, _sync_interval,
                        _sync_lock, threads, eventSet, hist>>
    ELSE LET k == Created + 1
         IN  /\ k \in ThreadIds
             /\ _sync_token' = callers[c].token
             /\ _sync_interval' = Max(callers[c].interval, MinInterval)
             /\ _sync_stop_event' = k
             /\ _sync_thread' = k
             /\ threads' = [threads EXCEPT ![k] = [Unborn EXCEPT !.pc = "check"]]
             /\ callers' = [callers EXCEPT ![c] = Return(c, TRUE, 0)]
             /\ hist' = [armed |-> FALSE, everStarted |-> TRUE,
                         lastToken |-> callers[c].token]
             /\ UNCHANGED <<_sync_lock, eventSet>>

\* The clean-up of a stop_background_sync that clears the token as well
StopCleanUp_ClearsToken(c) ==
    /\ _sync_thread' = 0
    /\ _sync_stop_event' = 0
    /\ _sync_token' = None
    /\ _sync_lock' = None
    /\ callers' = [callers EXCEPT ![c] = Return(c, TRUE, 0)]

\* The clean-up of stop_background_sync, and its return.  The function
\* declares only _sync_thread and _sync_stop_event global, so its last
\* statement, `_sync_token = None`, binds a local name: the token stays.
StopCleanUp(c) ==
    /\ _sync_thread' = 0
    /\ _sync_stop_event' = 0
    /\ UNCHANGED _sync_token
    /\ _sync_lock' = None
    /\ callers' = [callers EXCEPT ![c] = Return(c, TRUE, 0)]

\* stop_background_sync that clears the references without setting the event
stop_background_sync_NoSignal(c) ==
    IF _sync_stop_event = 0 \/ _sync_thread = 0
    THEN /\ callers' = [callers EXCEPT ![c] = Return(c, FALSE, 0)]
         /\ UNCHANGED <<_sync_thread, _sync_stop_event, _sync_token, _sync_interval,
                        _sync_lock, threads, eventSet, hist>>
    ELSE /\ hist' = [hist EXCEPT !.armed = TRUE]
         /\ threads' = [k \in ThreadIds |-> [threads[k] EXCEPT !.late = 0]]
         /\ IF IsAlive(_sync_thread)
            THEN /\ _sync_lock' = c
                 /\ callers' = [callers EXCEPT ![c].pc = "join"]
                 /\ UNCHANGED <<_sync_thread, _sync_stop_event, _sync_token>>
            ELSE StopCleanUp(c)
         /\ UNCHANGED <<_sync_interval, eventSet>>

\* stop_background_sync under the lock, up to the join
stop_background_sync(c) ==
    IF _sync_stop_event = 0 \/ _sync_thread = 0
    THEN /\ callers' = [callers EXCEPT ![c] = Return(c, FALSE, 0)]
         /\ UNCHANGED <<_sync_thread, _sync_stop_event, _sync_token, _sync_interval,
                        _sync_lock, threads, eventSet, hist>>
    ELSE /\ eventSet' = eventSet \cup {_sync_stop_event}
         /\ hist' = [hist EXCEPT !.armed = TRUE]
         /\ threads' = [k \in ThreadIds |-> [threads[k] EXCEPT !.late = 0]]
         /\ IF IsAlive(_sync_thread)
            THEN /\ _sync_lock' = c
                 /\ callers' = [callers EXCEPT ![c].pc = "join"]
                 /\ UNCHANGED <<_sync_thread, _sync_stop_event, _sync_token>>
            ELSE StopCleanUp(c)
         /\ UNCHANGED _sync_interval

\* is_sync_running under the lock
is_sync_running(c) ==
    /\ callers' = [callers EXCEPT ![c] = Return(c, ThreadRunning, 0)]
    /\ UNCHANGED <<_sync_thread, _sync_stop_event, _sync_token, _sync_interval,
                   _sync_lock, threads, eventSet, hist>>

\* get_sync_interval under the lock
get_sync_interval(c) ==
    /\ callers' = [callers EXCEPT ![c] =
                     Return(c, TRUE, IF _sync_interval # 0 THEN _sync_interval ELSE 0)]
    /\ UNCHANGED <<_sync_thread, _sync_stop_event, _sync_token, _sync_interval,
                   _sync_lock, threads, eventSet, hist>>

\* set_sync_interval takes the lock and, holding it, calls is_sync_running
set_sync_interval(c) ==
    /\ _sync_lock' = c
    /\ callers' = [callers EXCEPT ![c].pc = "inner"]
    /\ UNCHANGED <<_sync_thread, _sync_stop_event, _sync_token, _sync_interval,
                   threads, eventSet, hist>>

\* The rest of set_sync_interval, once the `with _sync_lock` of the
\* is_sync_running it called has got the lock
set_sync_interval_inner(c) ==
    /\ IF ~ThreadRunning
       THEN /\ callers' = [callers EXCEPT ![c] = Return(c, FALSE, 0)]
            /\ UNCHANGED _sync_interval
       ELSE /\ _sync_interval' = Max(callers[c].interval, MinInterval)
            /\ callers' = [callers EXCEPT ![c] = Return(c, TRUE, 0)]
    /\ _sync_lock' = None
    /\ UNCHANGED <<_sync_thread, _sync_stop_event, _sync_token, threads, eventSet, hist>>

\* trigger_sync_now under the lock, up to the call of sync_tasks
trigger_sync_now(c) ==
    IF _sync_token = None
    THEN /\ callers' = [callers EXCEPT ![c] = Return(c, FALSE, 0)]
         /\ UNCHANGED <<_sync_thread, _sync_stop_event, _sync_token, _sync_interval,
                        _sync_lock, threads, eventSet, hist>>
    ELSE /\ _sync_lock' = c
         /\ callers' = [callers EXCEPT ![c].pc = "sync", ![c].tok = _sync_token]
         /\ UNCHANGED <<_sync_thread, _sync_stop_event, _sync_token, _sync_interval,
                        threads, eventSet, hist>>

\* threading.Lock.acquire: a caller waiting for the lock gets it when it is
\* free, whoever holds it otherwise, the caller itself included
Acquire(c) ==
    /\ callers[c].pc \in {"acquire", "inner"}
    /\ _sync_lock = None
    /\ CASE callers[c].pc = "inner" -> set_sync_interval_inner(c)
         [] callers[c].op = "start" -> start_background_sync(c)
         [] callers[c].op = "stop" -> stop_background_sync(c)
         [] callers[c].op = "is_running" -> is_sync_running(c)
         [] callers[c].op = "get_interval" -> get_sync_interval(c)
         [] callers[c].op = "set_interval" -> set_sync_interval(c)
         [] OTHER -> trigger_sync_now(c)
    /\ UNCHANGED <<tasksFile, entriesFile, stateFile, now, uuidSeq, last, procs>>

\* _sync_thread.join(timeout=5) returns: the thread has ended, or five
\* seconds have passed
JoinReturn(c) ==
    /\ callers[c].pc = "join"
    /\ StopCleanUp(c)
    /\ UNCHANGED <<_sync_interval, threads, eventSet, hist>>
    /\ UNCHANGED <<tasksFile, entriesFile, stateFile, now, uuidSeq, last, procs>>

\* sync_tasks called by trigger_sync_now returns, and the lock is released
TriggerEnd(c, W) ==
    /\ callers[c].pc = "sync"
    /\ \E resp \in StoreResponses, w \in [1..2 -> W] :
         LET r == sync_tasks(tasksFile, stateFile, resp, now, w)
         IN  /\ Drawn(w, sync_tasks_writes(w))
             /\ tasksFile' = r.tf
             /\ stateFile' = r.sf
             /\ callers' = [callers EXCEPT ![c] =
                              [Return(c, r.ret, 0) EXCEPT !.syncs = 1, !.res = r.ret]]
    /\ _sync_lock' = None
    /\ UNCHANGED <<_sync_thread, _sync_stop_event, _sync_token, _sync_interval,
                   threads, eventSet, hist>>
    /\ UNCHANGED <<entriesFile, now, uuidSeq, last, procs>>

\* What a step of a thread leaves alone
ThreadStepOnly ==
    /\ UNCHANGED <<_sync_thread, _sync_stop_event, _sync_token, _sync_interval,
                   _sync_lock, eventSet, callers, hist>>
    /\ UNCHANGED <<tasksFile, entriesFile, stateFile, now, uuidSeq, last, procs>>

\* `if _sync_stop_event is None or _sync_stop_event.is_set(): break`: the
\* global is read once for each operand; None at the second read raises
\* AttributeError, which ends the thread as well
StopCheck(k) ==
    /\ threads[k].pc \in {"check", "check2"}
    /\ threads' = [threads EXCEPT ![k] =
                     IF _sync_stop_event = 0 THEN Ended
                     ELSE IF threads[k].pc = "check" THEN [@ EXCEPT !.pc = "check2"]
                     ELSE IF _sync_stop_event \in eventSet THEN Ended
                     ELSE [@ EXCEPT !.pc = "token"]]
    /\ ThreadStepOnly

\* `if _sync_token:`
TokenCheck(k) ==
    /\ threads[k].pc = "token"
    /\ threads' = [threads EXCEPT ![k].pc = IF _sync_token = None THEN "after" ELSE "call"]
    /\ ThreadStepOnly

\* `sync_tasks(_sync_token)`: the sync begins
SyncBegin(k) ==
    /\ threads[k].pc = "call"
    /\ threads' = [threads EXCEPT ![k] =
                     [@ EXCEPT !.pc = "sync",
                               !.how = threads[k].rest, !.rest = "none",
                               !.late = IF hist.armed /\ @ < 2 THEN @ + 1 ELSE @]]
    /\ ThreadStepOnly

\* sync_tasks returns or raises; either way the loop goes on
SyncEnd(k, W) ==
    /\ threads[k].pc = "sync"
    /\ \E resp \in StoreResponses, w \in [1..2 -> W] :
         LET r == sync_tasks(tasksFile, stateFile, resp, now, w)
         IN  /\ Drawn(w, sync_tasks_writes(w))
             /\ tasksFile' = r.tf
             /\ stateFile' = r.sf
    /\ threads' = [threads EXCEPT ![k].pc = "after", ![k].how = "-"]
    /\ UNCHANGED <<_sync_thread, _sync_stop_event, _sync_token, _sync_interval,
                   _sync_lock, eventSet, callers, hist>>
    /\ UNCHANGED <<entriesFile, now, uuidSeq, last, procs>>

\* A loop that goes round without waiting
AfterSync_NoWait(k) ==
    /\ threads[k].pc \in {"after", "wait_read"}
    /\ threads' = [threads EXCEPT ![k] =
                     IF _sync_stop_event = 0 THEN Ended ELSE [@ EXCEPT !.pc = "check"]]
    /\ ThreadStepOnly

\* `if _sync_stop_event is None: break` and, at a second read of the global,
\* `_sync_stop_event.wait(_sync_interval)`
AfterSync(k) ==
    /\ threads[k].pc \in {"after", "wait_read"}
    /\ threads' = [threads EXCEPT ![k] =
                     IF _sync_stop_event = 0 THEN Ended
                     ELSE IF threads[k].pc = "after" THEN [@ EXCEPT !.pc = "wait_read"]
                     ELSE [@ EXCEPT !.pc = "wait", !.ev = _sync_stop_event]]
    /\ ThreadStepOnly

\* Event.wait(timeout) returns because the event is set
WakeOnSignal(k) ==
    /\ threads[k].pc = "wait"
    /\ threads[k].ev \in eventSet
    /\ threads' = [threads EXCEPT ![k].pc = "check", ![k].ev = 0, ![k].rest = "signal"]
    /\ ThreadStepOnly

\* Event.wait(timeout) returns because the interval has passed
WakeOnTimeout(k) ==
    /\ threads[k].pc = "wait"
    /\ threads[k].ev \notin eventSet
    /\ threads' = [threads EXCEPT ![k].pc = "check", ![k].ev = 0, ![k].rest = "timeout"]
    /\ ThreadStepOnly

ControlOps ==
    \/ \E c \in Callers, tok \in Tokens, iv \in Intervals : Call(c, "start", tok, iv)
    \/ \E c \in Callers, iv \in Intervals : Call(c, "set_interval", None, iv)
    \/ \E c \in Callers, op \in {"stop", "is_running", "get_interval", "trigger"} :
          Call(c, op, None, 0)
    \/ \E c \in Callers : Acquire(c)
    \/ \E c \in Callers : JoinReturn(c)

NextSched ==
    \/ ControlOps
    \/ \E c \in Callers : TriggerEnd(c, FailingStore)
    \/ \E k \in ThreadIds : StopCheck(k)
    \/ \E k \in ThreadIds : TokenCheck(k)
    \/ \E k \in ThreadIds : SyncBegin(k)
    \/ \E k \in ThreadIds : SyncEnd(k, FailingStore)
    \/ \E k \in ThreadIds : AfterSync(k)
    \/ \E k \in ThreadIds : WakeOnSignal(k)
    \/ \E k \in ThreadIds : WakeOnTimeout(k)

\* The control operations and the loop, on a store where any write may fail
SpecSched == Init /\ [][NextSched]_vars

-----------------------------------------------------------------------------
(* Properties *)

Entries == load_time_entries(entriesFile)
Tasks == load_tasks(tasksFile)
Active == get_active_task_id(stateFile)

\* The instant, in ticks, that a printed timestamp denotes
TimeOf(s) == s.sec * SubSec + (IF s.hasFrac THEN s.frac ELSE 0)

C3_StartRefused ==
    [][\A t \in TaskIds :
         (/\ last'.op = "start" /\ last'.task = t
          /\ (~task_exists(tasksFile, t) \/ get_active_task_id(stateFile) # None))
         => (/\ ~last'.ret
             /\ entriesFile' = entriesFile
             /\ stateFile' = stateFile)]_vars

\* start was refused for the task that is itself running.
C3_Witness ==
    /\ last.op = "start" /\ ~last.ret
    /\ last.preCached /\ last.preActive = last.task
    /\ Active = last.task

\* C4: stop(taskId) returns false and changes no time entry and no state
\* pointer whenever taskId is not the active task, also when none is active;
\* the timer of the other task keeps running.
C4_StopRefused ==
    [][\A t \in TaskIds :
         (/\ last'.op = "stop" /\ last'.task = t
          /\ get_active_task_id(stateFile) # t)
         => (/\ ~last'.ret
             /\ entriesFile' = entriesFile
             /\ stateFile' = stateFile)]_vars

\* stop was refused for a task while the other task was running, and the
\* other task still runs.
C4_Witness ==
    /\ last.op = "stop" /\ ~last.ret
    /\ last.preActive # None /\ last.preActive # last.task
    /\ Active = last.preActive
    /\ OpenIndicesOf(Entries, Active) # {}

C6_DurationIsFloor ==
    /\ \A i \in 1..Len(Entries) :
         LET e == Entries[i]
             d == TimeOf(e.stop_time) - TimeOf(e.start_time)
         IN  (~IsOpen(e) /\ d > 0) =>
                 /\ e.duration_seconds * SubSec <= d
                 /\ d < (e.duration_seconds + 1) * SubSec
    /\ (last.op = "start" /\ last.ret) =>
         \E i \in OpenIndices(Entries) :
            /\ Entries[i].entry_id = get_current_time_entry_id(stateFile)
            /\ TimeOf(Entries[i].start_time) = now
    /\ (last.op = "stop" /\ last.ret) =>
         \E i \in 1..Len(Entries) :
            /\ Entries[i].entry_id = last.preEntry
            /\ ~IsOpen(Entries[i])
            /\ TimeOf(Entries[i].stop_time) = now
    /\ _calculate_duration([sec |-> 0, hasFrac |-> FALSE, frac |-> 0, tz |-> "Z"],
                           [sec |-> 330, hasFrac |-> FALSE, frac |-> 0, tz |-> "Z"]) = 330

\* stop closed an entry a fraction of a second after start opened it.
C6_Witness ==
    /\ last.op = "stop" /\ last.ret
    /\ \E i \in 1..Len(Entries) :
         /\ Entries[i].entry_id = last.preEntry
         /\ TimeOf(Entries[i].stop_time) > TimeOf(Entries[i].start_time)
         /\ (TimeOf(Entries[i].stop_time) - TimeOf(Entries[i].start_time)) % SubSec # 0

\* The sum totalTime is to return at clock value `at`: the stored duration of
\* the closed entries of the task, the whole seconds since start_time of the
\* open ones
RECURSIVE SumOfDurations(_, _, _, _)
SumOfDurations(entries, n, task_id, at) ==
    IF n = 0 THEN 0
    ELSE SumOfDurations(entries, n - 1, task_id, at) +
         (IF entries[n].task_id # task_id THEN 0
          ELSE IF entries[n].stop_time = NoneT
               THEN (at - TimeOf(entries[n].start_time)) \div SubSec
               ELSE entries[n].duration_seconds)

\* C7: totalTime(taskId) is the sum over the entries of the task of the stored
\* duration_seconds when closed and of now - start_time when open; for a task
\* with an open entry a later query never returns less, and once a second has
\* passed the open entry counts for more than its stored 0.
C7_TotalTime ==
    /\ last.op = "totalTime" =>
         last.val = SumOfDurations(Entries, Len(Entries), last.task, now)
    /\ \A t \in TaskIds : \A n1 \in now..MaxClock :
         OpenIndicesOf(Entries, t) # {} =>
            /\ get_total_time_for_task(entriesFile, t, n1)
                 = SumOfDurations(Entries, Len(Entries), t, n1)
            /\ \A n2 \in n1..MaxClock :
                 get_total_time_for_task(entriesFile, t, n1)
                    <= get_total_time_for_task(entriesFile, t, n2)
            /\ (\E i \in OpenIndicesOf(Entries, t) :
                    n1 - TimeOf(Entries[i].start_time) >= SubSec)
                 => get_total_time_for_task(entriesFile, t, n1)
                      > StoredOver(Entries, Len(Entries), t)

\* totalTime was asked for a task with a closed entry and an entry that has
\* been running for a second.
C7_Witness ==
    /\ last.op = "totalTime" /\ last.preOpen
    /\ last.val > StoredOver(Entries, Len(Entries), last.task)
    /\ \E i \in 1..Len(Entries) : Entries[i].task_id = last.task /\ ~IsOpen(Entries[i])

\* C8: if taskId is in the task cache and no task is active, startWork(taskId,
\* token) returns true and leaves taskId running even when the remote fetch
\* fails: starting a timer never fails only because the network is down.
C8_StartWorkSurvivesNetworkFailure ==
    (/\ last.op = "startWork"
     /\ last.preCached /\ last.preActive = None
     /\ last.resp = NetError)
    => (/\ last.ret
        /\ Active = last.task
        /\ OpenIndicesOf(Entries, last.task) # {})

\* The first task of the cache with this id is marked completed
CompletedLocally(tasks, task_id) ==
    \E i \in 1..Len(tasks) :
       /\ tasks[i].id = task_id
       /\ \A j \in 1..(i - 1) : tasks[j].id # task_id
       /\ tasks[i].is_completed

Normalized(r) ==
    [id |-> r.id,
     content |-> IF "content" \in DOMAIN r THEN r.content ELSE "",
     description |-> IF "description" \in DOMAIN r /\ r.description # "" THEN r.description ELSE None,
     due_date |-> IF "due" \in DOMAIN r /\ r.due # NoneT THEN r.due.datetime ELSE NoneT,
     priority |-> IF "priority" \in DOMAIN r THEN r.priority ELSE 1,
     project_id |-> IF "project_id" \in DOMAIN r THEN r.project_id ELSE None,
     labels |-> IF "labels" \in DOMAIN r THEN r.labels ELSE <<>>,
     is_completed |-> IF "is_completed" \in DOMAIN r THEN r.is_completed ELSE FALSE,
     completed_at |-> IF "completed_at" \in DOMAIN r /\ r.completed_at # EmptyT
                      THEN r.completed_at ELSE NoneT,
     order |-> IF "order" \in DOMAIN r THEN r.order ELSE 0,
     url |-> IF "url" \in DOMAIN r /\ r.url # "" THEN r.url ELSE None]

\* The task list a fetch returned: the list of the answer, none when it failed
Fetched(resp) == IF resp.status = "ok" /\ resp.json = "list" THEN resp.body ELSE <<>>

\* C10: after sync(token) returns true the local task collection is exactly
\* the normalized image of the task list the fetch returned: the same tasks
\* and no others, every task absent remotely gone, and is_completed and
\* completed_at of a task completed only locally replaced by the remote values.
C10_SyncOverwrites ==
    (last.op = "sync" /\ last.ret) =>
        /\ Len(Tasks) = Len(Fetched(last.resp))
        /\ \A i \in 1..Len(Tasks) : Tasks[i] = Normalized(Fetched(last.resp)[i])

\* sync dropped a task held only locally and brought a task that had been
\* completed locally back to the remote state, not completed.
C10_Witness ==
    /\ last.op = "sync" /\ last.ret
    /\ last.preDone = {"T1", "T2"}
    /\ Len(Tasks) = 1
    /\ Tasks[1].id = "T1" /\ ~Tasks[1].is_completed /\ Tasks[1].completed_at = NoneT

\* The fetch of the last operation ended in an empty list because it failed
FetchFailed(resp) == resp.status # "ok" \/ resp.json # "list"

WriteFailed == \E i \in DOMAIN last.writes : last.writes[i] # "ok"

\* C20: whenever a write to durable storage performed inside start, stop,
\* sync or markCompleteLocal fails (the time-entry write, the task write, or
\* a write of the state pointers or of last_sync), the call returns false.
C20_FailedWriteReturnsFalse ==
    (last.op \in {"start", "stop", "sync", "markCompleteLocal"} /\ WriteFailed)
        => ~last.ret

\* The entry a row of the report was written for
EntryOfRow(row) == CHOOSE i \in 1..Len(Entries) : Entries[i].entry_id = row.entry_id

\* C12: in the exported report, the row of every entry whose stop_time is
\* null (an open entry created by start) has "ACTIVE" in the stop column and
\* in the duration column now - start_time, not the stored duration_seconds.
C12_OpenEntryReportedActive ==
    (last.op = "export" /\ last.ret) =>
        \A k \in 1..Len(last.rows) :
            LET e == Entries[EntryOfRow(last.rows[k])]
            IN  IsOpen(e) =>
                  /\ last.rows[k].stop_time = ActiveT
                  /\ last.rows[k].duration_seconds
                       = (now - TimeOf(e.start_time)) \div SubSec

\* C13 as stated: a session started at 2024-01-01T00:00:00Z and stopped at
\* 2024-01-01T00:05:30Z gives one time entry with duration_seconds == 330
\* whose human-readable duration is "5m".
C13_FiveMinutesThirty ==
    (last.op = "export" /\ last.ret) =>
        \A k \in 1..Len(last.rows) :
            LET e == Entries[EntryOfRow(last.rows[k])]
            IN  (/\ ~IsOpen(e)
                 /\ TimeOf(e.start_time) = 0
                 /\ TimeOf(e.stop_time) = SessionTicks)
                => (/\ e.duration_seconds = 330
                    /\ last.rows[k].duration_seconds = 330
                    /\ last.rows[k].duration_human = "5m")

\* C13, amended: the same session gives one time entry with duration_seconds
\* == 330 whose human-readable duration is "5m 30s".
C13_FiveMinutesThirtyAmended ==
    (last.op = "export" /\ last.ret) =>
        \A k \in 1..Len(last.rows) :
            LET e == Entries[EntryOfRow(last.rows[k])]
            IN  (/\ ~IsOpen(e)
                 /\ TimeOf(e.start_time) = 0
                 /\ TimeOf(e.stop_time) = SessionTicks)
                => (/\ e.duration_seconds = 330
                    /\ last.rows[k].duration_seconds = 330
                    /\ last.rows[k].duration_human = "5m 30s")

\* The report has the row of a session started at clock 0 and stopped 330 s
\* later, the only entry of the store.
C13_Witness ==
    /\ last.op = "export" /\ last.ret
    /\ Len(Entries) = 1 /\ Len(last.rows) = 1
    /\ ~IsOpen(Entries[1])
    /\ TimeOf(Entries[1].start_time) = 0
    /\ TimeOf(Entries[1].stop_time) = SessionTicks
    /\ last.rows[1].duration_seconds = 330

\* The threads that are running _sync_loop
LiveLoops == {k \in ThreadIds : IsAlive(k)}

\* The operations that start and stop the schedule, and the loop
NextCancel ==
    \/ \E c \in Callers, tok \in Tokens, iv \in Intervals : Call(c, "start", tok, iv)
    \/ \E c \in Callers : Call(c, "stop", None, 0)
    \/ \E c \in Callers : Acquire(c)
    \/ \E c \in Callers : JoinReturn(c)
    \/ \E k \in ThreadIds : StopCheck(k)
    \/ \E k \in ThreadIds : TokenCheck(k)
    \/ \E k \in ThreadIds : SyncBegin(k)
    \/ \E k \in ThreadIds : SyncEnd(k, ReliableStore)
    \/ \E k \in ThreadIds : AfterSync(k)
    \/ \E k \in ThreadIds : WakeOnSignal(k)
    \/ \E k \in ThreadIds : WakeOnTimeout(k)

\* A thread that can take a step is scheduled, a sync ends (its requests time
\* out after 30 s), and a set event wakes its waiters; that an interval ever
\* passes is not assumed.
SchedFairness ==
    \A k \in ThreadIds :
        /\ WF_vars(StopCheck(k))
        /\ WF_vars(TokenCheck(k))
        /\ WF_vars(SyncBegin(k))
        /\ WF_vars(SyncEnd(k, ReliableStore))
        /\ WF_vars(AfterSync(k))
        /\ WF_vars(WakeOnSignal(k))

SpecCancel == Init /\ [][NextCancel]_vars /\ SchedFairness

\* C14: at any time at most one background sync cycle is live: over every
\* interleaving of start(), stop() (whose wait for the cycle may expire while
\* a sync is in progress) and the steps of the loop, start() returns false
\* while a cycle is running and never are two sync loops running at once.
C14_OneLiveCycle == Cardinality(LiveLoops) <= 1

\* A caller is waiting for _sync_lock
WaitsForLock(c) == callers[c].pc \in {"acquire", "inner"}

\* C15: every control operation of the scheduler terminates: none waits for
\* the internal lock while the lock is held by an operation that is itself
\* waiting for it and so never releases it.
C15_NoOperationBlocksForever ==
    \A c \in Callers :
        (WaitsForLock(c) /\ _sync_lock # None) => ~WaitsForLock(_sync_lock)

\* Once stop() has signalled and until the next start(): every loop ends
LoopsEndAfterStop == hist.armed ~> (~hist.armed \/ LiveLoops = {})

\* A loop waiting on an event that is set leaves its wait
WaitWakesOnSignal ==
    \A k \in ThreadIds :
        (threads[k].pc = "wait" /\ threads[k].ev \in eventSet) ~> (threads[k].pc # "wait")

\* C16 as stated: once stop() has signalled cancellation and no later start()
\* occurs, the sync loop eventually terminates and begins no further sync; a
\* loop sleeping in its interval wait wakes on the stop signal.
C16_StopEndsTheLoop ==
    /\ [](hist.armed => \A k \in ThreadIds : threads[k].late = 0)
    /\ LoopsEndAfterStop
    /\ WaitWakesOnSignal

\* C16, amended: once stop() has signalled cancellation and no later start()
\* occurs, every sync loop eventually terminates and begins at most one
\* further sync (the one whose stop check came before the signal); a loop
\* sleeping in its interval wait wakes on the stop signal.
C16_StopEndsTheLoopAmended ==
    /\ [](hist.armed => \A k \in ThreadIds : threads[k].late <= 1)
    /\ LoopsEndAfterStop
    /\ WaitWakesOnSignal

\* stop() has signalled, and a loop that had passed its stop check is in the
\* sync it began after the signal.
C16_Witness ==
    /\ hist.armed
    /\ \E k \in ThreadIds : threads[k].pc = "sync" /\ threads[k].late = 1

Triggered(c) == callers[c].op = "trigger" /\ callers[c].pc = "idle"

Unexpected(kind, raw) ==
    \/ raw.kind # "json"
    \/ raw.value.t # "object"
    \/ KeyOf(kind) \notin DOMAIN raw.value.doc

\* C19: loading any of the three kinds never raises to the caller: when the
\* resource is absent, unreadable, not valid JSON, or valid JSON of an
\* unexpected shape (a bare number or null, a missing top-level key), load
\* returns the default value of the expected shape.
C19_LoadNeverRaises ==
    last.op = "load" =>
        /\ last.out.raised = "none"
        /\ Unexpected(last.kind, last.raw) => last.out.value = DefaultOf(last.kind)

\* The timer is at rest: no entry is open and both pointers are null
AtRest ==
    /\ OpenIndices(load_time_entries(entriesFile)) = {}
    /\ get_active_task_id(stateFile) = None
    /\ get_current_time_entry_id(stateFile) = None

\* The last operation was a stopAll() all of whose writes succeeded
StoppedAll == last.op = "stopAll" /\ ~WriteFailed

\* C21: from any state, including states that violate the single-timer or
\* pointer invariants, stopAll() with succeeding writes leaves no entry with
\* stop_time == null and both pointers null; a following start(T) for a
\* cached task T, its writes succeeding, then returns true.
C21_StopAllRecovers ==
    /\ [](StoppedAll => AtRest)
    /\ [][(StoppedAll /\ last'.op = "start" /\ last'.preCached /\ ~WriteFailed')
            => last'.ret]_vars

\* stopAll() has run, its writes succeeding, from a state that violated the
\* pointer invariant: active_task_id was set and no entry was open (the
\* time-entry collection, write 1, was not written)
C21_Witness ==
    /\ StoppedAll
    /\ last.preActive # None
    /\ 1 \notin DOMAIN last.writes
    /\ Len(load_time_entries(entriesFile)) > 0

\* This step is a second completeTask(taskId, token) in a row, for the same
\* task and with the same answer of the remote service, the task being
\* completed already
CompletesAgain ==
    /\ last.op = "completeTask"
    /\ last'.op = "completeTask"
    /\ last'.task = last.task
    /\ last'.resp = last.resp
    /\ last'.task \in last'.preDone

Malformed(entry) ==
    \/ "start_time" \notin DOMAIN entry
    \/ ~IsStamp(entry.start_time)

\* C23: a malformed start timestamp never makes stop, stopAll or totalTime
\* fail: for an open entry whose start_time is missing, null, not a string or
\* not parseable as ISO-8601, these operations complete, and the duration
\* they compute is 0.
C23_MalformedStartIsZero ==
    /\ last.op \in {"stop", "stopAll", "totalTime"} => last.raised = "none"
    /\ (last.op = "totalTime" /\ last.open # {}) =>
          \A i \in last.open : Malformed(Entries[i]) => last.val = 0
    /\ (last.op \in {"stop", "stopAll"} /\ last.open # {}) =>
          \A i \in last.open : Malformed(Entries[i]) =>
             (~IsOpen(Entries[i]) /\ Entries[i].duration_seconds = 0)

\* Some call of one thread has overlapped a call of another
Raced == \E p \in Procs : procs[p].raced

\* C24: without external mutual exclusion, two start() calls whose steps
\* interleave can both observe active_task_id == null and both append an
\* entry, so that a state with two entries having stop_time == null is
\* reachable; calls that do not overlap never lead to such a state.
C24_TwoOpenOnlyByRace ==
    Cardinality(OpenIndices(Entries)) >= 2 => Raced

\* Two overlapping start() calls have both returned true, and two entries are
\* open
C24_Witness ==
    /\ \A p \in Procs : procs[p].pc = "idle" /\ procs[p].op = "start" /\ procs[p].ret
    /\ Raced
    /\ Cardinality(OpenIndices(Entries)) = 2

\* Some thread has written back a list of entries or a state record that
\* another thread had rewritten since the first one loaded it
Stale == \E p \in Procs : procs[p].stale

Quiescent == \A p \in Procs : procs[p].pc = "idle"

\* C25: because every mutator of the application state reads the whole
\* record and writes the whole record back, a background sync's last_sync
\* stamp interleaved with a foreground start's or stop's pointer update can
\* lose one of the two writes: a state is reachable in which an open entry
\* exists while active_task_id is null, after both operations reported
\* success.  As long as one entry only has been made (so that the race of two
\* starts is out of the picture), no such state arises unless a thread wrote
\* back a file that had been rewritten since the thread loaded it.
C25_LostPointerOnlyByStaleWrite ==
    (Quiescent /\ uuidSeq = 1 /\ OpenIndices(Entries) # {} /\ Active = None) => Stale

\* A start and a sync, interleaved, have both returned true: the entry of the
\* start is open and active_task_id is null, the sync having written back
\* the record it loaded before the start set the pointer
C25_Witness ==
    /\ Quiescent
    /\ \E p, q \in Procs :
         /\ procs[p].op = "start" /\ procs[p].ret
         /\ procs[q].op = "sync" /\ procs[q].ret /\ procs[q].stale
    /\ uuidSeq = 1
    /\ OpenIndices(Entries) # {}
    /\ Active = None
    /\ get_last_sync(stateFile) # NoneT

\* The entry a start() has made is in the persisted time-entry collection
Persisted(entry_id) ==
    \E i \in 1..Len(Entries) : Entries[i].entry_id = entry_id

\* C26: during a successful start(taskId), the new entry is persisted before
\* either state pointer is written: in every intermediate state of start, a
\* non-null current_time_entry_id or active_task_id written by this call
\* refers to an entry already present in the persisted time-entry
\* collection, and active_task_id is set before current_time_entry_id.
C26_EntryBeforePointers ==
    \A p \in Procs :
        (procs[p].op = "start" /\ procs[p].entry # None) =>
            /\ procs[p].pc \in {"s_load", "s_save", "a_load", "a_save"} =>
                  get_current_time_entry_id(stateFile) = None
            /\ procs[p].pc \in {"s_load", "s_save"} => Active = None
            /\ Active = procs[p].task => Persisted(procs[p].entry)
            /\ get_current_time_entry_id(stateFile) = procs[p].entry =>
                  (Persisted(procs[p].entry) /\ Active = procs[p].task)

\* A start() is between its two pointer writes: the entry is saved,
\* active_task_id is set and current_time_entry_id is still null
C26_Witness ==
    \E p \in Procs :
        /\ procs[p].op = "start" /\ procs[p].pc = "e_save"
        /\ Persisted(procs[p].entry)
        /\ Active = procs[p].task
        /\ get_current_time_entry_id(stateFile) = None

\* The rule of the human-readable duration, case by case
HumanDuration(s) ==
    LET h == s \div 3600
        m == (s % 3600) \div 60
        r == s % 60
        H == ToString(h) \o "h"
        M == ToString(m) \o "m"
        R == ToString(r) \o "s"
    IN  CASE h > 0 /\ m > 0 -> H \o " " \o M
          [] h > 0 /\ m = 0 -> H
          [] h = 0 /\ m > 0 /\ r > 0 -> M \o " " \o R
          [] h = 0 /\ m > 0 /\ r = 0 -> M
          [] h = 0 /\ m = 0 /\ r > 0 -> R
          [] OTHER -> "0m"

\* C27: the human-readable duration of a non-negative number of seconds s is
\* built from h = s div 3600, m = (s mod 3600) div 60, r = s mod 60: the
\* parts "<h>h" (if h > 0), "<m>m" (if m > 0) and "<r>s" (only if r > 0 and
\* h == 0) joined by single spaces, and "0m" when no part is produced (so
\* 0 -> "0m", 3900 -> "1h 5m", 3601 -> "1h").
C27_HumanDuration ==
    last.op = "format" =>
        /\ last.out = HumanDuration(last.seconds)
        /\ last.seconds = 0 => last.out = "0m"
        /\ last.seconds = 3900 => last.out = "1h 5m"
        /\ last.seconds = 3601 => last.out = "1h"

\* 3601 seconds have been formatted: an hour, no minutes, and a second that
\* is left out
C27_Witness ==
    last.op = "format" /\ last.seconds = 3601 /\ last.out = "1h"

\* C28: after any sequence of sync and markCompleteLocal operations, every
\* task in the local cache has completed_at non-null if and only if
\* is_completed is true.
C28_CompletedAtIffCompleted ==
    \A i \in 1..Len(Tasks) :
        (Tasks[i].completed_at # NoneT) <=> (Tasks[i].is_completed = TRUE)

\* A timer runs on a task that is not in the cache
Dangling ==
    /\ Active # None
    /\ ~task_exists(tasksFile, Active)
    /\ OpenIndicesOf(Entries, Active) # {}

TimerKept ==
    /\ Entries' = Entries
    /\ Active' = Active
    /\ get_current_time_entry_id(stateFile') = get_current_time_entry_id(stateFile)

CacheKept ==
    /\ Tasks' = Tasks
    /\ get_last_sync(stateFile') = get_last_sync(stateFile)

\* The last operation made a write of the state record that failed after
\* the file had been truncated: write 2 of sync_tasks, writes 2 and 3 of
\* start_task, stop_task and stop_all_tasks
StateWriteTorn ==
    \E i \in DOMAIN last.writes :
        /\ last.writes[i] = "dump_failed"
        /\ \/ last.op = "sync" /\ i = 2
           \/ last.op \in {"start", "stop", "stopAll"} /\ i \in {2, 3}

====
